---- MODULE Spec2Model ----
(***************************************************************************)
(* Model of WhatsAppAnalyzer (src/whatsapp_analyzer.py): the transcript    *)
(* parser parse_whatsapp_export and the analyzer object's state.           *)
(*                                                                         *)
(* Text is modelled as it is in Python: a string is a sequence of          *)
(* characters, each character a one-character TLA+ string.  The character  *)
(* U+200E (left-to-right mark) is written "LRM", and the emoji characters  *)
(* are written "EMOJI01" .. "EMOJI11".                                     *)
(***************************************************************************)
EXTENDS Integers, Sequences, FiniteSets, TLC

(***************************************************************************)
(* Bounds of the model.                                                    *)
(***************************************************************************)
\* total number of lines read from files over all parse calls of one run
MaxLines == 3
\* number of parse_whatsapp_export calls on the one analyzer object
MaxCalls == 2
\* number of lines of the file that is parsed before the analyzers run
MaxCorpus == 2
\* number of analyzer calls on the one analyzer object
MaxAnalyses == 2

(***************************************************************************)
(* Characters and the str methods the parser uses.                         *)
(***************************************************************************)
Digits == {"0", "1", "2", "3", "4", "5", "6", "7", "8", "9"}

\* str.strip() / regex \s: the whitespace characters of the alphabet
Whitespace == {" ", "\t", "\n", "\r"}

DigitVal(c) ==
    CASE c = "0" -> 0 [] c = "1" -> 1 [] c = "2" -> 2 [] c = "3" -> 3
      [] c = "4" -> 4 [] c = "5" -> 5 [] c = "6" -> 6 [] c = "7" -> 7
      [] c = "8" -> 8 [] c = "9" -> 9

\* int() of a digit string
RECURSIVE IntOf(_)
IntOf(s) ==
    IF s = <<>> THEN 0
    ELSE 10 * IntOf(SubSeq(s, 1, Len(s) - 1)) + DigitVal(s[Len(s)])

\* str.lower() on one character (the letters that occur in the alphabet)
LowerChar(c) ==
    CASE c = "A" -> "a" [] c = "B" -> "b" [] c = "C" -> "c" [] c = "D" -> "d"
      [] c = "E" -> "e" [] c = "F" -> "f" [] c = "G" -> "g" [] c = "H" -> "h"
      [] c = "I" -> "i" [] c = "J" -> "j" [] c = "K" -> "k" [] c = "L" -> "l"
      [] c = "M" -> "m" [] c = "N" -> "n" [] c = "O" -> "o" [] c = "P" -> "p"
      [] c = "Q" -> "q" [] c = "R" -> "r" [] c = "S" -> "s" [] c = "T" -> "t"
      [] c = "U" -> "u" [] c = "V" -> "v" [] c = "W" -> "w" [] c = "X" -> "x"
      [] c = "Y" -> "y" [] c = "Z" -> "z" [] OTHER -> c

\* str.lower()
Lower(s) == [i \in 1..Len(s) |-> LowerChar(s[i])]

\* number of leading / trailing whitespace characters of s
RECURSIVE LeadingSpace(_, _)
LeadingSpace(s, i) ==
    IF i <= Len(s) /\ s[i] \in Whitespace THEN LeadingSpace(s, i + 1) ELSE i - 1

RECURSIVE TrailingSpace(_, _)
TrailingSpace(s, i) ==
    IF i >= 1 /\ s[i] \in Whitespace THEN TrailingSpace(s, i - 1) ELSE Len(s) - i

\* str.strip()
Strip(s) ==
    LET a == LeadingSpace(s, 1)
        b == TrailingSpace(s, Len(s))
    IN  IF a = Len(s) THEN <<>> ELSE SubSeq(s, a + 1, Len(s) - b)

\* `sub in s`
Contains(s, sub) ==
    \E i \in 1..(Len(s) - Len(sub) + 1) : SubSeq(s, i, i + Len(sub) - 1) = sub

\* s.startswith(prefix)
StartsWith(s, prefix) ==
    Len(s) >= Len(prefix) /\ SubSeq(s, 1, Len(prefix)) = prefix

\* index of the first occurrence of character c in s at or after i, 0 if none
RECURSIVE IndexFrom(_, _, _)
IndexFrom(s, c, i) ==
    IF i > Len(s) THEN 0
    ELSE IF s[i] = c THEN i
    ELSE IndexFrom(s, c, i + 1)

\* length of the run of digits of s that starts at i
RECURSIVE DigitRun(_, _)
DigitRun(s, i) ==
    IF i <= Len(s) /\ s[i] \in Digits THEN 1 + DigitRun(s, i + 1) ELSE 0

\* first index at or after i that holds no whitespace (Len(s)+1 if none)
RECURSIVE SkipSpace(_, _)
SkipSpace(s, i) ==
    IF i <= Len(s) /\ s[i] \in Whitespace THEN SkipSpace(s, i + 1) ELSE i

CharAt(s, i) == IF i >= 1 /\ i <= Len(s) THEN s[i] ELSE "EOS"

\* list(f): the values of a function of 1..n, as a list
List(f) == SubSeq(f, 1, Len(f))

\* the k-th smallest of a set of places
NthPlace(places, k) ==
    CHOOSE i \in places : Cardinality({j \in places : j < i}) = k - 1

\* the number of places of s that satisfy Test
Count(s, Test(_)) == Cardinality({k \in 1..Len(s) : Test(s[k])})

(***************************************************************************)
(* The message-start grammar: re.match(pattern, line_stripped), pattern =   *)
(*   "[" D{1,2} "/" D{1,2} "/" D{2,4} "," S* D{1,2} ":" D{2} ":" D{2} "]"  *)
(*   S* sender ":" S* message                                              *)
(* (D a digit, S a whitespace character; the groups are the date, the      *)
(* time, the lazy sender and the greedy message).                          *)
(* The match is anchored at the first character only.  Every quantified    *)
(* digit group is followed by a literal, so a group matches exactly when   *)
(* the run of digits at its place has an allowed length.  The lazy sender  *)
(* group ends at the first colon after the closing bracket.                *)
(***************************************************************************)
NoMatch == [ok |-> FALSE]

ReMatch(s) ==
    LET n1 == DigitRun(s, 2)
        p1 == 2 + n1                  \* the first "/"
        n2 == DigitRun(s, p1 + 1)
        p2 == p1 + 1 + n2             \* the second "/"
        n3 == DigitRun(s, p2 + 1)
        p3 == p2 + 1 + n3             \* the ","
        t0 == SkipSpace(s, p3 + 1)    \* start of the time
        nh == DigitRun(s, t0)
        c1 == t0 + nh                 \* the first ":" of the time
        c2 == c1 + 3                  \* the second ":" of the time
        rb == c2 + 3                  \* the "]"
        q  == SkipSpace(s, rb + 1)    \* start of the sender
        col == IndexFrom(s, ":", q)   \* the colon that ends the sender
        m0 == SkipSpace(s, col + 1)   \* start of the message
    IN  IF /\ CharAt(s, 1) = "["
           /\ n1 \in 1..2 /\ CharAt(s, p1) = "/"
           /\ n2 \in 1..2 /\ CharAt(s, p2) = "/"
           /\ n3 \in 2..4 /\ CharAt(s, p3) = ","
           /\ nh \in 1..2 /\ CharAt(s, c1) = ":"
           /\ CharAt(s, c1 + 1) \in Digits /\ CharAt(s, c1 + 2) \in Digits
           /\ CharAt(s, c2) = ":"
           /\ CharAt(s, c2 + 1) \in Digits /\ CharAt(s, c2 + 2) \in Digits
           /\ CharAt(s, rb) = "]"
           /\ col # 0
        THEN [ok |-> TRUE,
              date_str |-> SubSeq(s, 2, p3 - 1),
              time_str |-> SubSeq(s, t0, rb - 1),
              sender   |-> SubSeq(s, q, col - 1),
              message  |-> SubSeq(s, m0, Len(s))]
        ELSE NoMatch

(***************************************************************************)
(* Date and time parsing.                                                  *)
(***************************************************************************)
\* s.split(c)
RECURSIVE Split(_, _)
Split(s, c) ==
    LET i == IndexFrom(s, c, 1)
    IN  IF i = 0 THEN <<s>>
        ELSE <<SubSeq(s, 1, i - 1)>> \o Split(SubSeq(s, i + 1, Len(s)), c)

\* s.replace(old, new, 1) for a one-character old: the FIRST occurrence only
ReplaceFirst(s, old, new) ==
    LET i == IndexFrom(s, old, 1)
    IN  IF i = 0 THEN s
        ELSE SubSeq(s, 1, i - 1) \o new \o SubSeq(s, i + 1, Len(s))

\* lines 181-182: a two-digit year field makes the code rewrite date_str
ExpandYear(date_str) ==
    IF Len(Split(date_str, "/")[3]) = 2
    THEN ReplaceFirst(date_str, "/", <<"/", "2", "0">>)
    ELSE date_str

IsLeap(y) == (y % 4 = 0 /\ y % 100 # 0) \/ y % 400 = 0

DaysInMonth(y, m) ==
    IF m = 2 THEN (IF IsLeap(y) THEN 29 ELSE 28)
    ELSE IF m \in {4, 6, 9, 11} THEN 30 ELSE 31

AllDigits(f) == \A i \in 1..Len(f) : f[i] \in Digits

\* a field of one or two digits whose value lies in lo..hi (strptime's
\* %d, %m, %H, %M, %S each accept one or two digits)
Field12(f, lo, hi) ==
    Len(f) \in 1..2 /\ AllDigits(f) /\ IntOf(f) >= lo /\ IntOf(f) <= hi

NoDate == [ok |-> FALSE]

\* strptime with the format "%m/%d/%Y %H:%M:%S": the first date field is the
\* month and the second the day
StrptimeMonthFirst(s) ==
    LET parts == Split(s, " ")
        d == Split(parts[1], "/")
        t == Split(parts[2], ":")
    IN  IF /\ Len(parts) = 2 /\ Len(d) = 3 /\ Len(t) = 3
           /\ Field12(d[1], 1, 12)
           /\ Field12(d[2], 1, 31)
           /\ Len(d[3]) = 4 /\ AllDigits(d[3]) /\ IntOf(d[3]) >= 1
           /\ Field12(t[1], 0, 23)
           /\ Field12(t[2], 0, 59)
           /\ Field12(t[3], 0, 59)
           /\ IntOf(d[2]) <= DaysInMonth(IntOf(d[3]), IntOf(d[1]))
        THEN [ok |-> TRUE,
              year |-> IntOf(d[3]), month |-> IntOf(d[1]), day |-> IntOf(d[2]),
              hour |-> IntOf(t[1]), minute |-> IntOf(t[2]), second |-> IntOf(t[3])]
        ELSE NoDate

\* datetime.strptime(s, "%d/%m/%Y %H:%M:%S"): the whole of s must match, %Y
\* takes exactly four digits, and the date must exist; anything else raises
\* ValueError (ok = FALSE)
Strptime(s) ==
    LET parts == Split(s, " ")
        d == Split(parts[1], "/")
        t == Split(parts[2], ":")
    IN  IF /\ Len(parts) = 2 /\ Len(d) = 3 /\ Len(t) = 3
           /\ Field12(d[1], 1, 31)
           /\ Field12(d[2], 1, 12)
           /\ Len(d[3]) = 4 /\ AllDigits(d[3]) /\ IntOf(d[3]) >= 1
           /\ Field12(t[1], 0, 23)
           /\ Field12(t[2], 0, 59)
           /\ Field12(t[3], 0, 59)
           /\ IntOf(d[1]) <= DaysInMonth(IntOf(d[3]), IntOf(d[2]))
        THEN [ok |-> TRUE,
              year |-> IntOf(d[3]), month |-> IntOf(d[2]), day |-> IntOf(d[1]),
              hour |-> IntOf(t[1]), minute |-> IntOf(t[2]), second |-> IntOf(t[3])]
        ELSE NoDate

\* date.toordinal(): days since 0001-01-01, that day being 1
RECURSIVE DaysBeforeMonth(_, _)
DaysBeforeMonth(y, m) ==
    IF m <= 1 THEN 0 ELSE DaysInMonth(y, m - 1) + DaysBeforeMonth(y, m - 1)

ToOrdinal(y, m, d) ==
    LET p == y - 1
    IN  p * 365 + (p \div 4) - (p \div 100) + (p \div 400) + DaysBeforeMonth(y, m) + d

DayNames ==
    <<"Monday", "Tuesday", "Wednesday", "Thursday", "Friday", "Saturday", "Sunday">>

MonthNames ==
    <<"January", "February", "March", "April", "May", "June", "July",
      "August", "September", "October", "November", "December">>

\* strftime('%A') and strftime('%B')
DayName(y, m, d) == DayNames[((ToOrdinal(y, m, d) + 6) % 7) + 1]
MonthName(m) == MonthNames[m]

(***************************************************************************)
(* The lines the files of the model are made of, as readlines() returns    *)
(* them (each with its line terminator).                                   *)
(***************************************************************************)
\* a message start; 3 April 2024
\*   [03/04/2024, 09:00:00] A: Hello\n
LineHello ==
    <<"[", "0", "3", "/", "0", "4", "/", "2", "0", "2", "4", ",", " ", "0",
      "9", ":", "0", "0", ":", "0", "0", "]", " ", "A", ":", " ", "H", "e",
      "l", "l", "o", "\n">>

\* a message start with one-digit fields, no optional spaces, and an earlier timestamp
\*   [1/1/2024, 8:05:00]B:Hi \n
LineEarlier ==
    <<"[", "1", "/", "1", "/", "2", "0", "2", "4", ",", " ", "8", ":", "0",
      "5", ":", "0", "0", "]", "B", ":", "H", "i", " ", "\n">>

\* a start line with a two-digit year
\*   [15/12/23, 14:30:25] A: yo\n
LineYear2 ==
    <<"[", "1", "5", "/", "1", "2", "/", "2", "3", ",", " ", "1", "4", ":",
      "3", "0", ":", "2", "5", "]", " ", "A", ":", " ", "y", "o", "\n">>

\* a start line whose second date field is no month
\*   [04/13/2024, 09:00:00] C: no\n
LineMonth13 ==
    <<"[", "0", "4", "/", "1", "3", "/", "2", "0", "2", "4", ",", " ", "0",
      "9", ":", "0", "0", ":", "0", "0", "]", " ", "C", ":", " ", "n", "o",
      "\n">>

\* a start line with only whitespace before the first colon
\*   [03/04/2024, 09:01:00]  : hi\n
LineNoSender ==
    <<"[", "0", "3", "/", "0", "4", "/", "2", "0", "2", "4", ",", " ", "0",
      "9", ":", "0", "1", ":", "0", "0", "]", " ", " ", ":", " ", "h", "i",
      "\n">>

\* a line that matches no grammar, with surrounding whitespace
\*    world \n
LineWorld ==
    <<" ", "w", "o", "r", "l", "d", " ", "\n">>

\* a media placeholder, in mixed case
\*   <Media omitted>\n
LineMedia ==
    <<"<", "M", "e", "d", "i", "a", " ", "o", "m", "i", "t", "t", "e", "d",
      ">", "\n">>

\* a line that begins with the left-to-right mark
\*   <U+200E>x\n
LineLrm ==
    <<"LRM", "x", "\n">>

\* a whitespace-only line
\*    \n
LineBlank ==
    <<" ", "\n">>

\* a second line that matches no grammar
\*   again\n
LineAgain ==
    <<"a", "g", "a", "i", "n", "\n">>

\* an image placeholder, in upper case
\*   IMAGE OMITTED\n
LineImage ==
    <<"I", "M", "A", "G", "E", " ", "O", "M", "I", "T", "T", "E", "D", "\n">>

Pool ==
    <<LineHello,
      LineEarlier,
      LineYear2,
      LineMonth13,
      LineNoSender,
      LineWorld,
      LineMedia,
      LineLrm,
      LineBlank,
      LineAgain,
      LineImage>>

\* a message with words in two letter cases and emojis, one of them twice
\*   [05/04/2024, 23:59:59] B: OK <EMOJI01><EMOJI11> ok u<EMOJI11>\n
LineEmoji ==
    <<"[", "0", "5", "/", "0", "4", "/", "2", "0", "2", "4", ",", " ", "2",
      "3", ":", "5", "9", ":", "5", "9", "]", " ", "B", ":", " ", "O", "K",
      " ", "EMOJI01", "EMOJI11", " ", "o", "k", " ", "u", "EMOJI11", "\n">>

\* a message with 21 different words and 11 different emojis
\*   [06/04/2024, 00:00:00] A: a b c ... u <EMOJI01> <EMOJI02> ... <EMOJI11>\n
LineMany ==
    <<"[", "0", "6", "/", "0", "4", "/", "2", "0", "2", "4", ",", " ", "0",
      "0", ":", "0", "0", ":", "0", "0", "]", " ", "A", ":", " ", "a", " ",
      "b", " ", "c", " ", "d", " ", "e", " ", "f", " ", "g", " ", "h", " ",
      "i", " ", "j", " ", "k", " ", "l", " ", "m", " ", "n", " ", "o", " ",
      "p", " ", "q", " ", "r", " ", "s", " ", "t", " ", "u", " ",
      "EMOJI01", " ", "EMOJI02", " ", "EMOJI03", " ", "EMOJI04", " ",
      "EMOJI05", " ", "EMOJI06", " ", "EMOJI07", " ", "EMOJI08", " ",
      "EMOJI09", " ", "EMOJI10", " ", "EMOJI11", "\n">>

\* the lines of the files that are parsed before the analyzers run
CorpusPool ==
    <<LineEarlier,
      LineMonth13,
      LineEmoji,
      LineMany>>

(***************************************************************************)
(* The lines and pages of the PDF files of the model.  A page is the text  *)
(* page.extract_text() returns for it; its lines carry no terminator.      *)
(***************************************************************************)
\* a line that begins with a bracketed date and holds a colon, without a time
\*   [01/04/2024] A: hi
PdfShape ==
    <<"[", "0", "1", "/", "0", "4", "/", "2", "0", "2", "4", "]", " ", "A",
      ":", " ", "h", "i">>

\* a line with the dash-separated timestamp
\*   1/4/24, 9:05 - A: hi
PdfDash ==
    <<"1", "/", "4", "/", "2", "4", ",", " ", "9", ":", "0", "5", " ", "-",
      " ", "A", ":", " ", "h", "i">>

\* a message start without its line terminator
\*   [03/04/2024, 09:00:00] A: Hello
PdfStart == SubSeq(LineHello, 1, Len(LineHello) - 1)

\* a boilerplate phrase in upper case
\*   MEDIA OMITTED
PdfPhrase ==
    <<"M", "E", "D", "I", "A", " ", "O", "M", "I", "T", "T", "E", "D">>

\* a line that is none of these
PdfPlain == <<"x">>

PdfEmpty == <<>>

PdfLines == <<PdfShape, PdfDash, PdfStart, PdfPhrase, PdfPlain, PdfEmpty>>

\* a page of n empty lines
EmptyLines(n) == [i \in 1..(n - 1) |-> "\n"]

\* the length of the window of line 108
ScanLines == 50

\* the pages: a long page that fills all but the last line of the window, a
\* page with a line of the bracketed-date shape, a page for each kind of
\* indicator and a plain page
LongPage == List(EmptyLines(ScanLines - 1))

PagePool == <<LongPage, PdfShape, PdfStart, PdfDash, PdfPhrase, PdfPlain>>

\* every line of the model
AllLines == Pool \o <<LineEmoji, LineMany>> \o PdfLines

(***************************************************************************)
(* Placeholder lines (lines 206-212).                                      *)
(***************************************************************************)
\* 'image omitted', 'media omitted', 'document omitted', 'audio omitted',
\* 'video omitted', 'sticker omitted'
PlaceholderPhrases ==
    { <<"i", "m", "a", "g", "e", " ", "o", "m", "i", "t", "t", "e", "d">>,
      <<"m", "e", "d", "i", "a", " ", "o", "m", "i", "t", "t", "e", "d">>,
      <<"d", "o", "c", "u", "m", "e", "n", "t", " ", "o", "m", "i", "t", "t", "e", "d">>,
      <<"a", "u", "d", "i", "o", " ", "o", "m", "i", "t", "t", "e", "d">>,
      <<"v", "i", "d", "e", "o", " ", "o", "m", "i", "t", "t", "e", "d">>,
      <<"s", "t", "i", "c", "k", "e", "r", " ", "o", "m", "i", "t", "t", "e", "d">> }

\* lines 206-212 without .lower(): the phrases are matched in lower case only
IsPlaceholderCaseSensitive(line_stripped) ==
    \/ StartsWith(line_stripped, <<"LRM">>)
    \/ \E phrase \in PlaceholderPhrases : Contains(line_stripped, phrase)

\* the condition of lines 206-212 that keeps a continuation line out of the text
IsPlaceholder(line_stripped) ==
    \/ StartsWith(line_stripped, <<"LRM">>)
    \/ \E phrase \in PlaceholderPhrases : Contains(Lower(line_stripped), phrase)

(***************************************************************************)
(* The parse loop (lines 167-217).  The loop state st is                   *)
(*   messages        self.messages                                         *)
(*   participants    self.participants                                     *)
(*   current_message TRUE when current_message is not None; it is then the *)
(*                   same dict object as self.messages[-1]                 *)
(***************************************************************************)
\* lines 187-197: the dict built for a message start
NewMessage(dt, sender, message) ==
    [datetime    |-> <<dt.year, dt.month, dt.day, dt.hour, dt.minute, dt.second>>,
     date        |-> <<dt.year, dt.month, dt.day>>,
     time        |-> <<dt.hour, dt.minute, dt.second>>,
     sender      |-> Strip(sender),
     message     |-> Strip(message),
     hour        |-> dt.hour,
     day_of_week |-> DayName(dt.year, dt.month, dt.day),
     month       |-> MonthName(dt.month),
     year        |-> dt.year]

\* line 199 as an assignment: the new message replaces the list
AssignMessage(messages, current_message) == <<current_message>>

\* line 199 as an insertion that keeps the list ordered by datetime
RECURSIVE InsertByTime(_, _)
InsertByTime(messages, current_message) ==
    IF messages = <<>> THEN <<current_message>>
    ELSE LET last == messages[Len(messages)]
         IN  IF \E i \in 1..6 :
                    /\ current_message.datetime[i] < last.datetime[i]
                    /\ \A h \in 1..(i - 1) :
                           current_message.datetime[h] = last.datetime[h]
             THEN Append(InsertByTime(SubSeq(messages, 1, Len(messages) - 1),
                                      current_message), last)
             ELSE Append(messages, current_message)

\* line 199: self.messages.append(current_message)
AppendMessage(messages, current_message) == Append(messages, current_message)

\* line 215 without the separating space
JoinWithoutSpace(message, line_stripped) == message \o line_stripped

\* line 215: current_message['message'] += ' ' + line_stripped
JoinContinuation(message, line_stripped) == message \o <<" ">> \o line_stripped

\* lines 170-197 with `except ValueError` falling through to the continuation
\* branch: the dropped line is treated as a line that does not match
ReadLineKeepDropped(line) ==
    LET line_stripped == Strip(line)
        m == ReMatch(line_stripped)
        dt == Strptime(ExpandYear(m.date_str) \o <<" ">> \o m.time_str)
    IN  IF line_stripped = <<>>
        THEN [kind |-> "blank"]
        ELSE IF m.ok /\ dt.ok
        THEN [kind |-> "start",
              current_message |-> NewMessage(dt, m.sender, m.message)]
        ELSE [kind |-> "other",
              line_stripped |-> line_stripped,
              placeholder |-> IsPlaceholder(line_stripped)]

\* lines 170-197, the part of the loop body that reads nothing but the line:
\* what kind of line it is, and the dict a message start builds
ReadLine(line) ==
    LET line_stripped == Strip(line)
        m == ReMatch(line_stripped)
        dt == Strptime(ExpandYear(m.date_str) \o <<" ">> \o m.time_str)
    IN  IF line_stripped = <<>>
        THEN [kind |-> "blank"]                  \* line 171: continue
        ELSE IF m.ok /\ ~dt.ok
        THEN [kind |-> "dropped"]                \* except ValueError: continue
        ELSE IF m.ok
        THEN [kind |-> "start",
              current_message |-> NewMessage(dt, m.sender, m.message)]
        ELSE [kind |-> "other",
              line_stripped |-> line_stripped,
              placeholder |-> IsPlaceholder(line_stripped)]

\* ReadLine of every line of the model, computed once
LineTable == [j \in 1..Len(AllLines) |-> ReadLine(AllLines[j])]

PoolIndex(line) == CHOOSE j \in 1..Len(AllLines) : AllLines[j] = line

\* lines 199-200 without line 200: the sender is not added to the participants
OnStartWithoutParticipant(st, current_message) ==
    [messages        |-> AppendMessage(st.messages, current_message),
     participants    |-> st.participants,
     current_message |-> TRUE]

\* lines 199-200: a message start with a timestamp that parsed
OnStart(st, current_message) ==
    [messages        |-> AppendMessage(st.messages, current_message),
     participants    |-> st.participants \cup {current_message.sender},
     current_message |-> TRUE]

\* lines 203-217: a line that does not match the pattern
OnNoMatch(st, r) ==
    IF st.current_message /\ r.line_stripped # <<>> /\ ~r.placeholder
    THEN LET n == Len(st.messages)
         IN  [st EXCEPT !.messages[n].message =
                            JoinContinuation(st.messages[n].message, r.line_stripped)]
    ELSE st

\* lines 170-217 with a blank line ending the current message
OnLineBlankEnds(st, r) ==
    CASE r.kind = "blank"   -> [st EXCEPT !.current_message = FALSE]
      [] r.kind = "dropped" -> st
      [] r.kind = "start"   -> OnStart(st, r.current_message)
      [] r.kind = "other"   -> OnNoMatch(st, r)

\* lines 170-217: the body of the loop for a line read as r
OnLine(st, r) ==
    CASE r.kind = "blank"   -> st
      [] r.kind = "dropped" -> st
      [] r.kind = "start"   -> OnStart(st, r.current_message)
      [] r.kind = "other"   -> OnNoMatch(st, r)

\* lines 170-217: the body of the loop for one line
ParseLine(st, line) == OnLine(st, LineTable[PoolIndex(line)])

\* lines 169-217: the loop over lines[lo..hi], as the loop over its first half
\* and then over its second half
RECURSIVE ParseRange(_, _, _, _)
ParseRange(st, lines, lo, hi) ==
    IF lo > hi THEN st
    ELSE IF lo = hi THEN ParseLine(st, lines[lo])
    ELSE LET first == ParseRange(st, lines, lo, (lo + hi) \div 2)
         IN  \* the state after the first half is worked out, then the second
             \* half is begun
             IF first.current_message \in BOOLEAN
             THEN ParseRange(first, lines, (lo + hi) \div 2 + 1, hi)
             ELSE first

\* lines 169-217: the loop over lines[i..]
ParseLines(st, lines, i) == ParseRange(st, lines, i, Len(lines))

(***************************************************************************)
(* The analyzer object and its environment.                                *)
(***************************************************************************)
VARIABLES
    file_path,      \* self.file_path
    messages,       \* self.messages
    df,             \* self.df: None, or the rows of the DataFrame
    participants,   \* self.participants
    result,         \* how the last call ended: "True", "False", "ValueError"
    logged,         \* what the last call logged
    calls,          \* number of parse_whatsapp_export calls so far
    lines_read,     \* number of lines read from files so far
    input,          \* what the last call found at the path it read
    trace,          \* per call so far: what it found and how it ended
    returned,       \* the last call, if an analyzer: its name and what it returned
    written,        \* the paths opened for writing so far, in order
    polarity,       \* TextBlob's polarity of the texts it has scored so far
    analyses,       \* number of analyzer calls so far
    clock,          \* int(datetime.now().timestamp()): the second it is
    firebase,       \* the FirebaseService object and the Firestore collections
    storing,        \* the process_and_store_messages call: its arguments and locals
    service_calls,  \* number of calls of the service's methods so far
    session         \* the upload session: the files, the place in the loop, processed_data

vars == <<file_path, messages, df, participants, result, logged, calls,
          lines_read, input, trace, returned, written, polarity, analyses,
          clock, firebase, storing, service_calls, session>>

\* what the service and the upload session do not touch
analyzerVars == <<file_path, messages, df, participants, result, logged, calls,
                  lines_read, input, trace, written, polarity, analyses>>

\* what the analyzer object does not touch
serviceVars == <<clock, firebase, storing, service_calls, session>>

(***************************************************************************)
(* The checks of _is_whatsapp_content (lines 74-122).  re.search tries     *)
(* every place of the text; at a place, a digit group that a literal       *)
(* follows matches exactly when the run of digits there has an allowed     *)
(* length.                                                                 *)
(***************************************************************************)
\* D{1,2} "/" D{1,2} "/" at place i, then the place of the year and the
\* length of the run of digits there
DateAt(s, i) ==
    LET n1 == DigitRun(s, i)
        p1 == i + n1                  \* the first "/"
        n2 == DigitRun(s, p1 + 1)
        p2 == p1 + 1 + n2             \* the second "/"
        n3 == DigitRun(s, p2 + 1)
    IN  IF /\ n1 \in 1..2 /\ CharAt(s, p1) = "/"
           /\ n2 \in 1..2 /\ CharAt(s, p2) = "/"
        THEN [ok |-> TRUE, year |-> p2 + 1, digits |-> n3]
        ELSE [ok |-> FALSE]

\* line 86: "[" date "," S* D{1,2} ":" D{2} ":" D{2} "]" at place i
BracketTimestampAt(s, i) ==
    LET d  == DateAt(s, i + 1)
        p3 == d.year + d.digits       \* the ","
        t0 == SkipSpace(s, p3 + 1)
        nh == DigitRun(s, t0)
        c1 == t0 + nh
    IN  /\ CharAt(s, i) = "["
        /\ d.ok /\ d.digits \in 2..4 /\ CharAt(s, p3) = ","
        /\ nh \in 1..2 /\ CharAt(s, c1) = ":"
        /\ CharAt(s, c1 + 1) \in Digits /\ CharAt(s, c1 + 2) \in Digits
        /\ CharAt(s, c1 + 3) = ":"
        /\ CharAt(s, c1 + 4) \in Digits /\ CharAt(s, c1 + 5) \in Digits
        /\ CharAt(s, c1 + 6) = "]"

\* line 87: date "," S* D{1,2} ":" D{2} S* "-" at place i
DashTimestampAt(s, i) ==
    LET d  == DateAt(s, i)
        p3 == d.year + d.digits       \* the ","
        t0 == SkipSpace(s, p3 + 1)
        nh == DigitRun(s, t0)
        c1 == t0 + nh
    IN  /\ d.ok /\ d.digits \in 2..4 /\ CharAt(s, p3) = ","
        /\ nh \in 1..2 /\ CharAt(s, c1) = ":"
        /\ CharAt(s, c1 + 1) \in Digits /\ CharAt(s, c1 + 2) \in Digits
        /\ CharAt(s, SkipSpace(s, c1 + 3)) = "-"

\* lines 88-93: the phrases, in the order of the list
IndicatorPhrases ==
    <<<<"M", "e", "s", "s", "a", "g", "e", "s", " ", "t", "o", " ", "t",
        "h", "i", "s", " ", "c", "h", "a", "t", " ", "a", "n", "d", " ",
        "c", "a", "l", "l", "s", " ", "a", "r", "e", " ", "n", "o", "w",
        " ", "s", "e", "c", "u", "r", "e", "d">>,
      <<"e", "n", "d", "-", "t", "o", "-", "e", "n", "d", " ", "e", "n",
        "c", "r", "y", "p", "t", "i", "o", "n">>,
      <<"T", "h", "i", "s", " ", "m", "e", "s", "s", "a", "g", "e", " ",
        "w", "a", "s", " ", "d", "e", "l", "e", "t", "e", "d">>,
      <<"M", "e", "d", "i", "a", " ", "o", "m", "i", "t", "t", "e", "d">>,
      <<"W", "h", "a", "t", "s", "A", "p", "p", " ", "C", "h", "a", "t",
        " ", "w", "i", "t", "h">>,
      <<"M", "e", "s", "s", "a", "g", "e", "s", " ", "a", "n", "d", " ",
        "c", "a", "l", "l", "s", " ", "a", "r", "e", " ", "e", "n", "d",
        "-", "t", "o", "-", "e", "n", "d", " ", "e", "n", "c", "r", "y",
        "p", "t", "e", "d">>>>

\* line 99: re.search(phrase, text, re.IGNORECASE) for the phrases, none of which holds
\* a character that is special in a pattern, given the text in lower case
HasPhrase(lowered) ==
    \E k \in 1..Len(IndicatorPhrases) :
        \E i \in 1..(Len(lowered) - Len(IndicatorPhrases[k]) + 1) :
            \A j \in 1..Len(IndicatorPhrases[k]) :
                lowered[i + j - 1] = LowerChar(IndicatorPhrases[k][j])

\* lines 98-101: one of the indicators is found
HasIndicator(text) ==
    \/ \E i \in 1..Len(text) : BracketTimestampAt(text, i)
    \/ \E i \in 1..Len(text) : DashTimestampAt(text, i)
    \/ HasPhrase(List(Lower(text)))

\* line 109: re.search(r'^\[\d{1,2}/\d{1,2}/\d{2,4}.*?\].*?:', line); the
\* lazy groups take any characters, digits of the year beyond the second
\* among them
MessageLike(line) ==
    LET d  == DateAt(line, 2)
        rb == IndexFrom(line, "]", d.year + 2)
    IN  /\ CharAt(line, 1) = "["
        /\ d.ok /\ d.digits >= 2
        /\ rb # 0
        /\ IndexFrom(line, ":", rb + 1) # 0

\* the places lo..hi of s that hold the character c, in rising order
RECURSIVE Places(_, _, _, _)
Places(s, c, lo, hi) ==
    IF lo > hi THEN <<>>
    ELSE IF lo = hi THEN (IF s[lo] = c THEN <<lo>> ELSE <<>>)
    ELSE Places(s, c, lo, (lo + hi) \div 2)
             \o Places(s, c, (lo + hi) \div 2 + 1, hi)

\* the pieces of the text before, between and after the places `cuts`
Pieces(text, cuts) ==
    List([k \in 1..(Len(cuts) + 1) |->
             SubSeq(text, IF k = 1 THEN 1 ELSE cuts[k - 1] + 1,
                          IF k > Len(cuts) THEN Len(text) ELSE cuts[k] - 1)])

\* line 104: text.split(sep)
SplitText(text, sep) == Pieces(text, Places(text, sep, 1, Len(text)))

\* line 108: lines[:n]
FirstLines(lines, n) ==
    SubSeq(lines, 1, IF Len(lines) < n THEN Len(lines) ELSE n)

\* lines 104-122 counting the lines of a window of `window` lines against
\* the threshold `least`
EnoughMessageLike(text, window, least) ==
    Count(FirstLines(SplitText(text, "\n"), window), MessageLike) >= least

\* lines 104-122 counting the message-like lines of the whole text
IsWhatsappContentAnyLine(text) ==
    HasIndicator(text) \/ EnoughMessageLike(text, Len(text) + 1, 2)

\* lines 74-122: _is_whatsapp_content(text)
IsWhatsappContent(text) ==
    HasIndicator(text) \/ EnoughMessageLike(text, ScanLines, 2)

\* the places lo..hi of s where a line boundary of the alphabet ends ("\n",
\* "\r" or "\r\n"), in rising order
RECURSIVE LineEnds(_, _, _)
LineEnds(s, lo, hi) ==
    IF lo > hi THEN <<>>
    ELSE IF lo = hi
    THEN (IF s[lo] = "\n" \/ (s[lo] = "\r" /\ CharAt(s, lo + 1) # "\n")
          THEN <<lo>> ELSE <<>>)
    ELSE LineEnds(s, lo, (lo + hi) \div 2) \o LineEnds(s, (lo + hi) \div 2 + 1, hi)

\* the lines that end at the places `ends`, without their terminators, and
\* the rest of the text if a boundary is not the last of it
LinesUpTo(text, ends) ==
    LET Start(k) == IF k = 1 THEN 1 ELSE ends[k - 1] + 1
        Stop(k) == IF text[ends[k]] = "\n" /\ CharAt(text, ends[k] - 1) = "\r"
                   THEN ends[k] - 2 ELSE ends[k] - 1
        last == IF ends = <<>> THEN 0 ELSE ends[Len(ends)]
    IN  List([k \in 1..Len(ends) |-> SubSeq(text, Start(k), Stop(k))])
            \o (IF last < Len(text)
                THEN <<SubSeq(text, last + 1, Len(text))>> ELSE <<>>)

\* line 139: text.splitlines()
SplitLines(text) == LinesUpTo(text, LineEnds(text, 1, Len(text)))

\* lines 50-52: text += page.extract_text() + "\n" for every page
RECURSIVE ExtractText(_)
ExtractText(pages) ==
    IF pages = <<>> THEN <<>>
    ELSE pages[1] \o <<"\n">> \o ExtractText(Tail(pages))

\* line 57: text[:200].replace('\n', ' ')
SampleText(text) ==
    List([i \in 1..(IF Len(text) < 200 THEN Len(text) ELSE 200) |->
             IF text[i] = "\n" THEN " " ELSE text[i]])

\* lines 55-65: the ValueError of a text that is not a chat
NotWhatsapp(text) ==
    [type    |-> "ValueError",
     message |-> "PDF does not contain WhatsApp chat export data",
     sample  |-> SampleText(text)]

\* lines 68-72: the ValueError that wraps any other exception
ExtractionFailed ==
    [type    |-> "ValueError",
     message |-> "Failed to extract text from PDF"]

None == "None"

\* the paths a caller passes; no path of the model ends in .pdf, so every file
\* is read as text (lines 140-143)
Paths == {"chat.txt"}

\* the files of at most n lines
TextFiles(n) == UNION {[1..k -> {Pool[j] : j \in 1..Len(Pool)}] : k \in 0..n}

\* what open()/readlines() of lines 142-143 can do: return the lines, raise
\* FileNotFoundError, or raise UnicodeDecodeError
ReadOutcomes(n) ==
    {[kind |-> "text", lines |-> f] : f \in TextFiles(n)}
        \cup {[kind |-> "missing", lines |-> <<>>],
              [kind |-> "undecodable", lines |-> <<>>]}

\* the paths whose extension, in lower case, is .pdf (lines 134-136)
PdfPaths == {"chat.pdf"}

\* the long pages of a PDF file
MaxLongPages == 1

LongPages(pages) == {k \in DOMAIN pages : pages[k] = LongPage}

\* the PDF files of at most n pages
PdfFiles(n) ==
    {pages \in UNION {[1..k -> {PagePool[j] : j \in 1..Len(PagePool)}] : k \in 0..n} :
        Cardinality(LongPages(pages)) <= MaxLongPages}

NoError == [type |-> None]

\* lines 136-139 and 48-67: a PDF that PdfReader opens gives its lines if its
\* text passes the check, the ValueError of lines 58-65 if it does not
ReadPdf(pages) ==
    IF IsWhatsappContent(ExtractText(pages))
    THEN [kind |-> "pdf", pages |-> pages, error |-> NoError,
          lines |-> SplitLines(ExtractText(pages))]
    ELSE [kind |-> "pdf", pages |-> pages,
          error |-> NotWhatsapp(ExtractText(pages)), lines |-> <<>>]

\* what _extract_text_from_pdf can do: read the pages, or wrap the exception
\* that PdfReader or extract_text raised (lines 68-72)
PdfOutcomes(n) ==
    {ReadPdf(pages) : pages \in PdfFiles(n)}
        \cup {[kind |-> "unreadable", pages |-> <<>>,
               error |-> ExtractionFailed, lines |-> <<>>]}

PdfKinds == {"pdf", "unreadable"}

\* the lines of a text file, or the pages of a PDF, that a read has taken
Consumed(found) ==
    IF found.kind \in PdfKinds THEN Len(found.pages) ELSE Len(found.lines)

NoInput == [kind |-> "none", lines |-> <<>>]

\* lines 26-36: WhatsAppAnalyzer()
NewAnalyzer ==
    /\ file_path = None
    /\ messages = <<>>
    /\ df = None
    /\ participants = {}
    /\ result = None
    /\ logged = None
    /\ calls = 0
    /\ lines_read = 0
    /\ input = NoInput
    /\ trace = <<>>
    /\ returned = [call |-> None]
    /\ written = <<>>
    /\ polarity = <<>>
    /\ analyses = 0

\* the state before a FirebaseService or a MultiFileProcessor is made
NoService ==
    /\ clock = 0
    /\ firebase = [made |-> FALSE, db |-> FALSE, bucket |-> FALSE,
                   chat_files |-> <<>>, chat_messages |-> <<>>,
                   integrity_reports |-> <<>>]
    /\ storing = [pc |-> "idle"]
    /\ service_calls = 0
    /\ session = [pc |-> "none"]

\* lines 26-36: WhatsAppAnalyzer()
Init == NewAnalyzer /\ NoService

\* lines 219-223 returning True whatever the list holds
ReturnTrue(msgs) == "True"

\* lines 219-223: the DataFrame and the return value after the loop
ReturnValue(msgs) == IF msgs # <<>> THEN "True" ELSE "False"
NewDf(msgs, old_df) == IF msgs # <<>> THEN msgs ELSE old_df

\* lines 155-159 returning False where no path is given and none is stored
ReturnFalseNoPath(arg) ==
    /\ arg = None
    /\ file_path = None
    /\ result' = "False"
    /\ logged' = None
    /\ input' = NoInput
    /\ UNCHANGED <<file_path, messages, df, participants, lines_read>>

\* lines 155-159: no path given and none stored
RaiseNoPath(arg) ==
    /\ arg = None
    /\ file_path = None
    /\ result' = "ValueError"
    /\ logged' = None
    /\ input' = NoInput
    /\ UNCHANGED <<file_path, messages, df, participants, lines_read>>

\* lines 219-223: the loop has ended in the loop state st
AfterLoop(st) ==
    /\ messages' = st.messages
    /\ participants' = st.participants
    /\ df' = NewDf(st.messages, df)
    /\ result' = ReturnValue(st.messages)
    /\ logged' = None

\* lines 155-233 with a path: read the file, parse its lines
ParseFile(arg, found) ==
    /\ arg # None \/ file_path # None
    /\ file_path' = IF arg # None THEN arg ELSE file_path
    /\ input' = found
    /\ (file_path' \in PdfPaths) = (found.kind \in PdfKinds)
    /\ lines_read' = lines_read + Consumed(found)
    /\ IF found.kind = "missing"
       THEN \* except FileNotFoundError (lines 225-229)
            /\ logged' = "File not found"
            /\ result' = "False"
            /\ UNCHANGED <<messages, df, participants>>
       ELSE IF found.kind = "undecodable"
       THEN \* except Exception (lines 230-233)
            /\ logged' = "Error parsing file"
            /\ result' = "False"
            /\ UNCHANGED <<messages, df, participants>>
       ELSE IF found.kind \in PdfKinds /\ found.error # NoError
       THEN \* except Exception (lines 230-233), the ValueError in the log
            /\ logged' = [message |-> "Error parsing file",
                          error |-> found.error]
            /\ result' = "False"
            /\ UNCHANGED <<messages, df, participants>>
       ELSE AfterLoop(ParseLines([messages        |-> messages,
                                  participants    |-> participants,
                                  current_message |-> FALSE],
                                 found.lines, 1))

\* lines 145-233: one call, reading one of the given outcomes
Parse(arg, outcomes) ==
    /\ calls' = calls + 1
    /\ \/ RaiseNoPath(arg)
       \/ \E found \in outcomes : ParseFile(arg, found)
    /\ trace' = Append(trace, [arg    |-> arg,
                               kind   |-> input'.kind,
                               added  |-> Len(messages') - Len(messages),
                               result |-> result',
                               logged |-> logged'])
    /\ returned' = [call |-> None]
    /\ UNCHANGED <<written, polarity, analyses>>
    /\ UNCHANGED serviceVars

\* WhatsAppAnalyzer.parse_whatsapp_export(file_path=arg)
parse_whatsapp_export(arg) ==
    /\ calls < MaxCalls
    /\ Parse(arg, ReadOutcomes(MaxLines - lines_read))

Next == \E arg \in Paths \cup {None} : parse_whatsapp_export(arg)

Spec == Init /\ [][Next]_vars

\* the number of pages of the PDF files an analyzer reads
MaxPages == 3

\* WhatsAppAnalyzer.parse_whatsapp_export(file_path=arg), the path a PDF
parse_pdf_export(arg) ==
    /\ calls < MaxCalls
    /\ Parse(arg, PdfOutcomes(MaxPages - lines_read))

NextPdf == \E arg \in PdfPaths \cup {None} : parse_pdf_export(arg)

SpecPdf == Init /\ [][NextPdf]_vars

(***************************************************************************)
(* The analyzers (lines 235-383).  A DataFrame is the sequence of its      *)
(* rows, each row a record whose fields are the columns; pd.DataFrame()    *)
(* without rows and columns is the empty sequence.  An analyzer is an      *)
(* operator that gives the DataFrame it leaves behind and either the value *)
(* it returns or the exception it raises.                                  *)
(***************************************************************************)
\* the dict {}
EmptyDict == <<>>

\* df.columns
Columns(d) == IF d = <<>> THEN {} ELSE DOMAIN d[1]

Abs(a) == IF a < 0 THEN 0 - a ELSE a

RECURSIVE GCD(_, _)
GCD(a, b) == IF b = 0 THEN a ELSE GCD(b, a % b)

\* a / b (true division), as the fraction in lowest terms; b = 0 does not
\* occur where the code divides
Ratio(a, b) ==
    LET g == GCD(Abs(a), b)
    IN  IF g = 0 THEN [num |-> 0, den |-> b]
        ELSE [num |-> a \div g, den |-> b \div g]

\* pd.to_datetime of a datetime.date: the Timestamp of its midnight
ToTimestamp(date) == <<date[1], date[2], date[3], 0, 0, 0>>

\* df['date'].dtype: a column of datetime.date objects has dtype object
DateDtype(d) ==
    IF \E k \in 1..Len(d) : Len(d[k].date) = 3 THEN "object" ELSE "datetime64[ns]"

\* the DataFrame whose k-th row is Row(k), for k in i..n
RECURSIVE Rows(_, _, _)
Rows(Row(_), i, n) == IF i > n THEN <<>> ELSE <<Row(i)>> \o Rows(Row, i + 1, n)

\* line 249: self.df['date'] = pd.to_datetime(self.df['date'])
ConvertDates(d) ==
    LET Row(k) == [d[k] EXCEPT !.date = ToTimestamp(@)]
    IN  Rows(Row, 1, Len(d))

\* datetime tuples compare as datetime objects do
RECURSIVE TupleLess(_, _, _)
TupleLess(a, b, i) ==
    IF i > Len(a) THEN FALSE
    ELSE IF a[i] # b[i] THEN a[i] < b[i]
    ELSE TupleLess(a, b, i + 1)

Earlier(a, b) == TupleLess(a, b, 1)

\* lines 251-252: df['date'].min() and df['date'].max()
MinDate(d) ==
    CHOOSE x \in {d[k].date : k \in 1..Len(d)} :
        \A k \in 1..Len(d) : ~Earlier(d[k].date, x)
MaxDate(d) ==
    CHOOSE x \in {d[k].date : k \in 1..Len(d)} :
        \A k \in 1..Len(d) : ~Earlier(x, d[k].date)

\* line 253 without the + 1
TotalDaysNoPlusOne(min_date, max_date) ==
    ToOrdinal(max_date[1], max_date[2], max_date[3])
        - ToOrdinal(min_date[1], min_date[2], min_date[3])

\* line 253: (max_date - min_date).days + 1
TotalDays(min_date, max_date) ==
    ToOrdinal(max_date[1], max_date[2], max_date[3])
        - ToOrdinal(min_date[1], min_date[2], min_date[3]) + 1

\* df[col].value_counts().to_dict(): each value of the column with the number
\* of rows that hold it
ValueCounts(d, col) ==
    [v \in {d[k][col] : k \in 1..Len(d)} |->
        Cardinality({k \in 1..Len(d) : d[k][col] = v})]

\* `if self.df is None: return {}`
NoData == [df |-> None, value |-> EmptyDict]

\* lines 242-276: get_basic_stats
BasicStats(d, parts) ==
    IF d = None THEN NoData
    ELSE LET has_date == "date" \in Columns(d)
             d1 == IF has_date /\ DateDtype(d) = "object" THEN ConvertDates(d) ELSE d
             min_date == IF has_date THEN MinDate(d1) ELSE None
             max_date == IF has_date THEN MaxDate(d1) ELSE None
             total_days == IF has_date THEN TotalDays(min_date, max_date) ELSE 1
             messages_per_day == Ratio(Len(d1), total_days)
         IN  IF "sender" \notin Columns(d1)
             THEN [df |-> d1, raised |-> "KeyError"]
             ELSE [df    |-> d1,
                   value |-> [total_messages     |-> Len(d1),
                              total_participants |-> Cardinality(parts),
                              date_range         |-> [start |-> min_date, end |-> max_date],
                              total_days         |-> total_days,
                              messages_per_day   |-> messages_per_day,
                              messages_per_participant |-> ValueCounts(d1, "sender")]]

\* what a call leaves in returned
Outcome(call, out) ==
    IF "raised" \in DOMAIN out
    THEN [call |-> call, raised |-> out.raised]
    ELSE [call |-> call, value |-> out.value]

\* one analyzer call: it may change the DataFrame and nothing else of the object
Analyze(call, out) ==
    /\ analyses < MaxAnalyses
    /\ analyses' = analyses + 1
    /\ df' = out.df
    /\ returned' = Outcome(call, out)
    /\ logged' = None
    /\ UNCHANGED <<file_path, messages, participants, result, calls,
                   lines_read, input, trace, written>>
    /\ UNCHANGED serviceVars

get_basic_stats ==
    /\ Analyze("get_basic_stats", BasicStats(df, participants))
    /\ UNCHANGED polarity

\* df[col] = vals: the column is added, or replaced if it is there
SetColumn(d, col, vals) ==
    LET Row(k) == [c \in DOMAIN d[k] \cup {col} |->
                      IF c = col THEN vals[k] ELSE d[k][c]]
    IN  Rows(Row, 1, Len(d))

RECURSIVE SumSeq(_, _)
SumSeq(s, i) == IF i > Len(s) THEN 0 ELSE s[i] + SumSeq(s, i + 1)

(***************************************************************************)
(* TextBlob(message).sentiment.polarity is a number of [-1, 1] that        *)
(* depends on the text alone.  The model writes a polarity in hundredths   *)
(* and lets the library choose it, once for each text, among the values    *)
(* at and beyond the two thresholds of lines 380-382.                      *)
(***************************************************************************)
Scores == {-50, -10, 10, 50}

\* the polarities TextBlob may give the texts of d, given those it has given
Scorings(d, pol) ==
    LET texts == {d[k].message : k \in 1..Len(d)} \ DOMAIN pol
    IN  {pol @@ f : f \in [texts -> Scores]}

\* line 380 with s >= 0.1
IsPositiveInclusive(s) == s >= 10

\* lines 380-382: the three buckets
IsPositive(s) == s > 10
IsNegative(s) == s < -10
IsNeutral(s) == -10 <= s /\ s <= 10

\* lines 368-383: get_sentiment_analysis, pol being TextBlob's polarities
SentimentAnalysis(d, pol) ==
    IF d = None THEN NoData
    ELSE IF "message" \notin Columns(d)
    THEN [df |-> d, raised |-> "KeyError"]
    ELSE LET sentiments == List([k \in 1..Len(d) |-> pol[d[k].message]])
         IN  [df    |-> SetColumn(d, "sentiment", sentiments),
              value |-> [avg_sentiment     |-> Ratio(SumSeq(sentiments, 1),
                                                     100 * Len(sentiments)),
                         positive_messages |-> Count(sentiments, IsPositive),
                         negative_messages |-> Count(sentiments, IsNegative),
                         neutral_messages  |-> Count(sentiments, IsNeutral)]]

\* whether the analyzer reaches the loop over df['message']
ReadsMessages(d) == IF d = None THEN FALSE ELSE "message" \in Columns(d)

get_sentiment_analysis ==
    \E pol \in (IF ReadsMessages(df) THEN Scorings(df, polarity) ELSE {polarity}) :
        /\ Analyze("get_sentiment_analysis", SentimentAnalysis(df, pol))
        /\ polarity' = pol

(***************************************************************************)
(* Emojis and words (lines 314-359).  Each emoji of the alphabet is one    *)
(* character, which emoji.emoji_list reports and emoji.replace_emoji       *)
(* removes.                                                                *)
(***************************************************************************)
Emojis ==
    {"EMOJI01", "EMOJI02", "EMOJI03", "EMOJI04", "EMOJI05", "EMOJI06",
     "EMOJI07", "EMOJI08", "EMOJI09", "EMOJI10", "EMOJI11"}

IsEmoji(c) == c \in Emojis
NotEmoji(c) == c \notin Emojis

\* [e['emoji'] for e in emoji.emoji_list(message)]
FindEmojis(message) == SelectSeq(message, IsEmoji)

\* emoji.replace_emoji(message, '')
ReplaceEmoji(message) == SelectSeq(message, NotEmoji)

Letters ==
    {"a", "b", "c", "d", "e", "f", "g", "h", "i", "j", "k", "l", "m", "n",
     "o", "p", "q", "r", "s", "t", "u", "v", "w", "x", "y", "z"}

\* regex \w on the characters of the alphabet
IsWordChar(c) == LowerChar(c) \in Letters \/ c \in Digits \/ c = "_"

\* the places of s where a maximal run of word characters starts
WordStarts(s) ==
    {i \in 1..Len(s) : IsWordChar(s[i]) /\ (i = 1 \/ ~IsWordChar(s[i - 1]))}

\* the place where the run of word characters that starts at i ends
WordEnd(s, i) ==
    CHOOSE j \in i..Len(s) :
        /\ \A k \in i..j : IsWordChar(s[k])
        /\ j = Len(s) \/ ~IsWordChar(s[j + 1])

\* the word of s that starts at i
WordAt(s, i) == SubSeq(s, i, WordEnd(s, i))

\* re.findall(r'\b\w+\b', s): the maximal runs of word characters, from
\* left to right
FindWords(s) ==
    LET starts == WordStarts(s)
    IN  List([k \in 1..Cardinality(starts) |-> WordAt(s, NthPlace(starts, k))])

\* lines 346-347: the words of one message
FindAllWords(message) == FindWords(Lower(ReplaceEmoji(message)))

\* the message texts of the start lines of the model, and their emojis and
\* words, computed once
TextsOf(table) ==
    {table[j].current_message.message :
        j \in {i \in DOMAIN table : table[i].kind = "start"}}
StartTexts == TextsOf(LineTable)
EmojiTable == [t \in StartTexts |-> FindEmojis(t)]
WordsTable == [t \in StartTexts |-> FindAllWords(t)]

\* table[key] when the table has the key, computed otherwise
Lookup(table, key, computed) ==
    IF key \in DOMAIN table THEN table[key] ELSE computed

EmojiList(message) == Lookup(EmojiTable, message, FindEmojis(message))
WordsOf(message) == Lookup(WordsTable, message, FindAllWords(message))

\* the concatenation of Of(d[k].message) for the rows k of i..Len(d)
RECURSIVE Gather(_, _, _)
Gather(d, Of(_), i) ==
    IF i > Len(d) THEN <<>> ELSE Of(d[i].message) \o Gather(d, Of, i + 1)

\* the places of tokens where a token is met for the first time
FirstPlaces(tokens) ==
    {i \in 1..Len(tokens) : \A j \in 1..(i - 1) : tokens[j] # tokens[i]}

\* the keys of a Counter fed the tokens: the distinct tokens, in the order
\* they are first met
CounterKeys(tokens) ==
    LET places == FirstPlaces(tokens)
    IN  List([k \in 1..Cardinality(places) |-> tokens[NthPlace(places, k)]])

\* the Counter fed the tokens: its items in insertion order
Counter(tokens) ==
    LET keys == CounterKeys(tokens)
    IN  List([j \in 1..Len(keys) |->
                 [key   |-> keys[j],
                  count |-> Cardinality({i \in 1..Len(tokens) : tokens[i] = keys[j]})]])

\* the items of count c, the last inserted first
WithCountReversed(items, c) ==
    LET Has(item) == item.count = c
        found == SelectSeq(items, Has)
    IN  List([k \in 1..Len(found) |-> found[Len(found) + 1 - k]])

\* the items of count c, in the order of the list: the sort is stable
WithCount(items, c) ==
    LET Has(item) == item.count = c
    IN  SelectSeq(items, Has)

\* the highest count of the items, 0 when there is none
HighestCount(items) ==
    LET counts == {items[i].count : i \in 1..Len(items)} \cup {0}
    IN  CHOOSE c \in counts : \A other \in counts : other <= c

\* sorted(items, key=count, reverse=True) for the counts from c down
RECURSIVE SortByCount(_, _)
SortByCount(items, c) ==
    IF c = 0 THEN <<>> ELSE WithCount(items, c) \o SortByCount(items, c - 1)

\* Counter.most_common(n): the n first items of the items sorted by falling
\* count, items of equal count staying in insertion order
MostCommon(items, n) ==
    LET sorted == SortByCount(items, HighestCount(items))
    IN  SubSeq(sorted, 1, IF n < Len(sorted) THEN n ELSE Len(sorted))

HasEmoji(count) == count > 0

\* lines 325-332 adding the new counts to the column a former call left
EmojiResultAccumulated(d, emoji_per_message, emoji_counts) ==
    LET summed == List([k \in 1..Len(d) |->
                           emoji_per_message[k]
                               + (IF "emoji_count" \in DOMAIN d[k]
                                  THEN d[k].emoji_count ELSE 0)])
    IN  [df    |-> SetColumn(d, "emoji_count", summed),
         value |-> [total_emojis         |-> SumSeq(summed, 1),
                    emoji_per_message    |-> summed,
                    top_emojis           |-> MostCommon(emoji_counts, 10),
                    messages_with_emojis |-> Count(summed, HasEmoji)]]

\* lines 325-332: the column get_emoji_analysis sets and the dict it returns
EmojiResult(d, emoji_per_message, emoji_counts) ==
    [df    |-> SetColumn(d, "emoji_count", emoji_per_message),
     value |-> [total_emojis         |-> SumSeq(emoji_per_message, 1),
                emoji_per_message    |-> emoji_per_message,
                top_emojis           |-> MostCommon(emoji_counts, 10),
                messages_with_emojis |-> Count(emoji_per_message, HasEmoji)]]

\* lines 311-332: get_emoji_analysis
EmojiAnalysis(d) ==
    IF d = None THEN NoData
    ELSE IF "message" \notin Columns(d)
    THEN [df |-> d, raised |-> "KeyError"]
    ELSE EmojiResult(d, List([k \in 1..Len(d) |-> Len(EmojiList(d[k].message))]),
                     Counter(Gather(d, EmojiList, 1)))

get_emoji_analysis ==
    /\ Analyze("get_emoji_analysis", EmojiAnalysis(df))
    /\ UNCHANGED polarity

\* lines 351-359: the dict get_word_analysis returns
WordResult(d, all_words, word_counts) ==
    [df    |-> d,
     value |-> [total_words  |-> Len(all_words),
                unique_words |-> Len(word_counts),
                avg_words_per_message |-> Ratio(Len(all_words), Len(d)),
                top_words    |-> MostCommon(word_counts, 20)]]

\* the words of all rows and their Counter
WordCounts(d, all_words) == WordResult(d, all_words, Counter(all_words))

\* lines 341-359: get_word_analysis
WordAnalysis(d) ==
    IF d = None THEN NoData
    ELSE IF "message" \notin Columns(d)
    THEN [df |-> d, raised |-> "KeyError"]
    ELSE WordCounts(d, Gather(d, WordsOf, 1))

get_word_analysis ==
    /\ Analyze("get_word_analysis", WordAnalysis(df))
    /\ UNCHANGED polarity

\* lines 285-289: get_message_activity_by_hour; the dict is in rising order
\* of the hour
ActivityByHour(d) ==
    IF d = None THEN NoData
    ELSE IF "hour" \notin Columns(d)
    THEN [df |-> d, raised |-> "KeyError"]
    ELSE [df |-> d, value |-> ValueCounts(d, "hour")]

get_message_activity_by_hour ==
    /\ Analyze("get_message_activity_by_hour", ActivityByHour(df))
    /\ UNCHANGED polarity

\* lines 298-302: get_message_activity_by_day
ActivityByDay(d) ==
    IF d = None THEN NoData
    ELSE IF "day_of_week" \notin Columns(d)
    THEN [df |-> d, raised |-> "KeyError"]
    ELSE [df |-> d, value |-> ValueCounts(d, "day_of_week")]

get_message_activity_by_day ==
    /\ Analyze("get_message_activity_by_day", ActivityByDay(df))
    /\ UNCHANGED polarity

(***************************************************************************)
(* export_analysis_report (lines 486-568).                                 *)
(***************************************************************************)
\* the paths a caller passes as output_path; the first is the default
OutputPaths == {"whatsapp_analysis_report.html", "report.html"}

Raised(out) == "raised" \in DOMAIN out

\* the next analyzer, on the DataFrame the one before left, unless that one
\* raised
AndThen(before, analyzer(_)) ==
    IF Raised(before) THEN before ELSE analyzer(before.df)

\* lines 498-503: the first five analyzers in turn, each on the DataFrame
\* the one before left; an exception of one of them ends the call
FirstAnalyses(d, parts) ==
    AndThen(AndThen(AndThen(AndThen(BasicStats(d, parts),
                                    ActivityByHour),
                            ActivityByDay),
                    EmojiAnalysis),
            WordAnalysis)

\* lines 562-563 opening the default path whatever output_path is
WriteReportToDefault(files, output_path) ==
    Append(files, "whatsapp_analysis_report.html")

\* lines 562-563: open(output_path, 'w') and write
WriteReport(files, output_path) == Append(files, output_path)

\* lines 493-496: no DataFrame, a warning and nothing else
ExportNothing(output_path) ==
    /\ df = None
    /\ logged' = "No data to analyze"
    /\ returned' = [call |-> "export_analysis_report",
                    output_path |-> output_path, value |-> None]
    /\ UNCHANGED <<df, written, polarity>>

\* lines 498-503 ending in an exception: nothing is written
ExportRaises(output_path, out) ==
    /\ Raised(out)
    /\ df' = out.df
    /\ returned' = [call |-> "export_analysis_report",
                    output_path |-> output_path, raised |-> out.raised]
    /\ logged' = None
    /\ UNCHANGED <<written, polarity>>

\* lines 504-568: the sentiment analysis, then the file is written
ExportWrites(output_path, out) ==
    /\ ~Raised(out)
    /\ \E pol \in Scorings(out.df, polarity) :
          /\ df' = SentimentAnalysis(out.df, pol).df
          /\ polarity' = pol
    /\ returned' = [call |-> "export_analysis_report",
                    output_path |-> output_path, value |-> None]
    /\ written' = WriteReport(written, output_path)
    /\ logged' = "Analysis report saved"

\* lines 498-568: what follows the first five analyzers
ExportAfter(output_path, out) ==
    ExportRaises(output_path, out) \/ ExportWrites(output_path, out)

export_analysis_report(output_path) ==
    /\ analyses < MaxAnalyses
    /\ analyses' = analyses + 1
    /\ \/ ExportNothing(output_path)
       \/ /\ df # None
          /\ ExportAfter(output_path, FirstAnalyses(df, participants))
    /\ UNCHANGED <<file_path, messages, participants, result, calls,
                   lines_read, input, trace>>
    /\ UNCHANGED serviceVars

(***************************************************************************)
(* get_combined_analyzer_for_ai (src/multi_file_upload.py, lines 514-543): *)
(* the analyzer object is made from stored data instead of a parse.        *)
(***************************************************************************)
\* processed_data['combined'] of a project without messages
EmptyCombined == [df_data |-> <<>>, messages |-> <<>>, participants |-> <<>>]

StoredData == {EmptyCombined}

get_combined_analyzer_for_ai(combined) ==
    /\ calls = 0 /\ analyses = 0 /\ df = None
    /\ df' = IF combined.df_data # <<>>
             THEN combined.df_data      \* pd.DataFrame(combined['df_data'])
             ELSE <<>>                  \* pd.DataFrame()
    /\ messages' = combined.messages
    /\ participants' = {combined.participants[i] : i \in 1..Len(combined.participants)}
    /\ UNCHANGED <<file_path, result, logged, calls, lines_read, input, trace,
                   returned, written, polarity, analyses>>
    /\ UNCHANGED serviceVars

\* the files of at most n corpus lines
CorpusFiles(n) ==
    UNION {[1..k -> {CorpusPool[j] : j \in 1..Len(CorpusPool)}] : k \in 0..n}

\* what reading the file can do in the runs where the analyzers are called
CorpusOutcomes ==
    {[kind |-> "text", lines |-> f] : f \in CorpusFiles(MaxCorpus)}
        \cup {[kind |-> "missing", lines |-> <<>>]}

\* parse_whatsapp_export(file_path=arg) as the first parse of the object
ParseCorpus(arg) ==
    /\ calls = 0
    /\ Parse(arg, CorpusOutcomes)

NextAnalysis ==
    \/ \E arg \in Paths \cup {None} : ParseCorpus(arg)
    \/ \E combined \in StoredData : get_combined_analyzer_for_ai(combined)
    \/ get_basic_stats
    \/ get_message_activity_by_hour
    \/ get_message_activity_by_day
    \/ get_emoji_analysis
    \/ get_word_analysis
    \/ get_sentiment_analysis
    \/ \E output_path \in OutputPaths : export_analysis_report(output_path)

SpecAnalysis == Init /\ [][NextAnalysis]_vars

(***************************************************************************)
(* Storing the parsed rows (src/firebase_service.py, lines 282-307): the   *)
(* ChatMessage documents process_and_store_messages builds from the list   *)
(* of rows, batch by batch.                                                *)
(***************************************************************************)
batch_size == 100

\* the document of the row at list position k (1-based): i is the start of
\* its batch and j its place in the batch, both 0-based as in the code
ChatMessageOf(msgs, k) ==
    LET i == ((k - 1) \div batch_size) * batch_size
        j == (k - 1) % batch_size
    IN  [message_index |-> i + j,
         line_number   |-> i + j + 1,
         timestamp     |-> msgs[k].datetime,
         sender        |-> msgs[k].sender,
         message       |-> msgs[k].message]

ChatMessages(msgs) == [k \in 1..Len(msgs) |-> ChatMessageOf(msgs, k)]

(***************************************************************************)
(* src/firebase_service.py: the service that stores files and messages.    *)
(* A Firestore collection is a function from document ids to documents.    *)
(***************************************************************************)
\* line 29: message_count of a ChatFile that was not processed yet (None)
Unset == -1

ProjectIds == {"p1"}
UploadNames == {"a.txt", "b.txt"}

\* the order in which a query streams the documents of two names
NameOrder == <<"a.txt", "b.txt">>

\* line 180: the file id is made of the project, the second of the upload and
\* a digest of the name (distinct names are taken to have distinct digests)
FileId(project_id, second, file_name) == <<project_id, second, file_name>>

\* an id that no upload gave out
StrayFileId == FileId("p1", 0, "stray.txt")

\* lines 204-222: the ChatFile of a new upload
NewChatFile(file_id, file_name, project_id) ==
    [id                  |-> file_id,
     name                |-> file_name,
     project_id          |-> project_id,
     status              |-> "uploaded",
     message_count       |-> Unset,
     processing_metadata |-> [lines_processed |-> 0, error_count |-> 0]]

\* lines 526-534: the update of a missing document (or without a database)
\* raises, and the exception is logged and swallowed
UpdateFileStatus(fb, file_id, status) ==
    IF fb.db /\ file_id \in DOMAIN fb.chat_files
    THEN [fb EXCEPT !.chat_files[file_id].status = status]
    ELSE fb

\* lines 87-123: FirebaseService(); a failure of firestore.client() leaves
\* both db and bucket None, a failure of storage.bucket() leaves bucket None
NewFirebaseService(outcome) ==
    /\ ~firebase.made
    /\ session.pc = "none"
    /\ firebase' = [firebase EXCEPT !.made = TRUE,
                                    !.db = outcome \in {"ok", "no_bucket"},
                                    !.bucket = outcome = "ok"]
    /\ UNCHANGED <<clock, storing, service_calls, session, returned>>
    /\ UNCHANGED analyzerVars

\* lines 204-225: the ChatFile of the upload is set in chat_files
Uploaded(fb, file_id, file_name, project_id) ==
    [fb EXCEPT !.chat_files =
        (file_id :> NewChatFile(file_id, file_name, project_id)) @@ @]

MaxServiceCalls == 2

\* lines 149-243: upload_file_with_integrity; tick is the time that passed
\* since the last call, stored is whether the writes to Storage and Firestore
\* went through
upload_file_with_integrity(file_name, project_id, tick, stored) ==
    LET file_id == FileId(project_id, clock + tick, file_name)
        chat_file == NewChatFile(file_id, file_name, project_id)
    IN  /\ firebase.made
        /\ storing.pc = "idle"
        /\ session.pc = "none"
        /\ service_calls < MaxServiceCalls
        /\ service_calls' = service_calls + 1
        /\ clock' = clock + tick
        /\ IF firebase.db /\ firebase.bucket /\ stored
           THEN /\ firebase' = Uploaded(firebase, file_id, file_name, project_id)
                /\ returned' = [call |-> "upload_file_with_integrity",
                                raised |-> FALSE, value |-> chat_file]
           ELSE /\ returned' = [call |-> "upload_file_with_integrity",
                                raised |-> TRUE]
                /\ UNCHANGED firebase
        /\ UNCHANGED <<storing, session>>
        /\ UNCHANGED analyzerVars

\* rows as df.to_dict('records') gives them
ParsedRows ==
    ParseLines([messages |-> <<>>, participants |-> {}, current_message |-> FALSE],
               <<LineHello, LineEarlier>>, 1).messages

\* a list of n rows
MessageList(n) == List([k \in 1..n |-> ParsedRows[((k - 1) % Len(ParsedRows)) + 1]])

MaxBatches == 2

\* the empty list and the lengths that begin and that fill the first and the
\* last batch
ListSizes ==
    {0, 1, batch_size,
     (MaxBatches - 1) * batch_size + 1, MaxBatches * batch_size}

\* line 288 and lines 291-307: the document of the row at list position k
MessageDocument(file_id, project_id, msgs, k) ==
    [id            |-> <<file_id, k - 1>>,
     file_id       |-> file_id,
     project_id    |-> project_id,
     fields        |-> ChatMessageOf(msgs, k)]

\* lines 287-314: the documents a committed batch writes for rows lo..hi
BatchDocuments(file_id, project_id, msgs, lo, hi) ==
    [id \in {<<file_id, k - 1>> : k \in lo..hi} |->
        MessageDocument(file_id, project_id, msgs, id[2] + 1)]

\* lines 264-280: the call begins
StoreBegin(file_id, msgs, project_id) ==
    /\ firebase.made
    /\ storing.pc = "idle"
    /\ session.pc = "none"
    /\ service_calls < MaxServiceCalls
    /\ service_calls' = service_calls + 1
    /\ IF ~firebase.db
       THEN \* lines 265-266 and 363-366
            /\ returned' = [call |-> "process_and_store_messages", raised |-> TRUE]
            /\ UNCHANGED <<firebase, storing>>
       ELSE /\ firebase' = UpdateFileStatus(firebase, file_id, "processing")
            /\ storing' = [pc             |-> "batches",
                           file_id        |-> file_id,
                           project_id     |-> project_id,
                           messages       |-> msgs,
                           total_messages |-> Len(msgs),
                           stored_count   |-> 0,
                           error_count    |-> 0,
                           i              |-> 0,
                           batch_messages |-> <<>>,
                           bound          |-> FALSE,
                           outcomes       |-> <<>>]
            /\ returned' = [call |-> None]
    /\ UNCHANGED <<clock, session>>
    /\ UNCHANGED analyzerVars

Min(a, b) == IF a < b THEN a ELSE b

BatchOutcomes == {"committed", "commit_raised", "batch_raised"}

\* line 324 counting a whole batch for a failed commit
FailedCountFullBatch(s) == [s EXCEPT !.error_count = @ + batch_size]

\* lines 322-324: the handler of a failed batch counts the rows of
\* batch_messages
FailedCount(s) == [s EXCEPT !.error_count = @ + Len(s.batch_messages)]

\* lines 282-324: one round of the loop; outcome is what the database did:
\* the batch was committed, commit() raised, or db.batch() raised before
\* batch_messages was assigned
StoreBatch(outcome) ==
    LET lo == storing.i + 1
        hi == Min(storing.i + batch_size, Len(storing.messages))
        slice == SubSeq(storing.messages, lo, hi)
        next == [storing EXCEPT !.i = @ + batch_size,
                                !.outcomes = Append(@, outcome)]
    IN  /\ storing.pc = "batches"
        /\ storing.i < Len(storing.messages)
        /\ CASE outcome = "committed" ->
                  /\ firebase' = [firebase EXCEPT !.chat_messages =
                        BatchDocuments(storing.file_id, storing.project_id,
                                       storing.messages, lo, hi) @@ @]
                  /\ storing' = [next EXCEPT !.batch_messages = slice,
                                             !.bound = TRUE,
                                             !.stored_count = @ + Len(slice)]
                  /\ UNCHANGED returned
             [] outcome = "commit_raised" ->
                  /\ storing' = FailedCount([next EXCEPT !.batch_messages = slice,
                                                         !.bound = TRUE])
                  /\ UNCHANGED <<firebase, returned>>
             [] outcome = "batch_raised" /\ storing.bound ->
                  \* batch_messages is still the previous batch
                  /\ storing' = FailedCount(next)
                  /\ UNCHANGED <<firebase, returned>>
             [] outcome = "batch_raised" /\ ~storing.bound ->
                  \* line 324 raises NameError; lines 363-366
                  /\ firebase' = UpdateFileStatus(firebase, storing.file_id, "error")
                  /\ storing' = [next EXCEPT !.pc = "idle"]
                  /\ returned' = [call |-> "process_and_store_messages",
                                  raised |-> TRUE]
        /\ UNCHANGED <<clock, service_calls, session>>
        /\ UNCHANGED analyzerVars

\* line 327: the percentage as an exact ratio
Completeness(stored_count, total_messages) ==
    IF total_messages > 0 THEN Ratio(stored_count * 100, total_messages)
    ELSE Ratio(0, 1)

Hundred == Ratio(100, 1)

\* lines 339-351: the file document gets the counts and the final status
FileProcessed(fb, s) ==
    LET counted == [fb EXCEPT
            !.chat_files[s.file_id].message_count = s.stored_count,
            !.chat_files[s.file_id].processing_metadata =
                [lines_processed |-> s.total_messages,
                 error_count |-> s.error_count]]
    IN  UpdateFileStatus(counted, s.file_id,
            IF Completeness(s.stored_count, s.total_messages) = Hundred
            THEN "processed" ELSE "error")

\* lines 326-366: after the loop; outage is whether the database stopped
\* taking writes, which makes line 339 raise and the status update of line
\* 365 fail as well
StoreFinish(outage) ==
    /\ storing.pc = "batches"
    /\ storing.i >= Len(storing.messages)
    /\ storing' = [storing EXCEPT !.pc = "idle",
                                  !.outcomes = Append(@, IF outage THEN "outage" ELSE "updated")]
    /\ IF outage
       THEN /\ returned' = [call |-> "process_and_store_messages", raised |-> TRUE]
            /\ UNCHANGED firebase
       ELSE IF storing.file_id \notin DOMAIN firebase.chat_files
       THEN \* line 339 raises NotFound; lines 363-366
            /\ firebase' = UpdateFileStatus(firebase, storing.file_id, "error")
            /\ returned' = [call |-> "process_and_store_messages", raised |-> TRUE]
       ELSE /\ firebase' = FileProcessed(firebase, storing)
            /\ returned' = [call   |-> "process_and_store_messages",
                            raised |-> FALSE,
                            value  |-> [stored         |-> storing.stored_count,
                                        errors         |-> storing.error_count,
                                        completeness   |-> Completeness(storing.stored_count,
                                                                        storing.total_messages),
                                        total_messages |-> storing.total_messages]]
    /\ UNCHANGED <<clock, service_calls, session>>
    /\ UNCHANGED analyzerVars

\* the file ids a caller can pass: one an upload returned, or a stray one
KnownFileIds == DOMAIN firebase.chat_files \cup {StrayFileId}

process_and_store_messages ==
    \/ \E file_id \in KnownFileIds, n \in ListSizes, project_id \in ProjectIds :
           StoreBegin(file_id, MessageList(n), project_id)
    \/ \E outcome \in BatchOutcomes : StoreBatch(outcome)
    \/ \E outage \in BOOLEAN : StoreFinish(outage)

NextStore ==
    \/ \E outcome \in {"ok", "no_bucket", "failed"} : NewFirebaseService(outcome)
    \/ \E file_name \in UploadNames, project_id \in ProjectIds,
          tick \in 0..1, stored \in BOOLEAN :
           upload_file_with_integrity(file_name, project_id, tick, stored)
    \/ process_and_store_messages

SpecStore == Init /\ [][NextStore]_vars

(***************************************************************************)
(* verify_data_completeness: the integrity report of a project.            *)
(***************************************************************************)
\* the place of a name in the order of the stream
NamePlace(file_name) == CHOOSE k \in 1..Len(NameOrder) : NameOrder[k] = file_name

\* lines 382-384: documents stream in the order of their ids, which begin
\* with the project and the second of the upload
IdBefore(a, b) ==
    \/ a[2] < b[2]
    \/ a[2] = b[2] /\ NamePlace(a[3]) < NamePlace(b[3])

\* lines 382-384: the ids of the files of the project, in stream order
ProjectFiles(fb, project_id) ==
    LET ids == {id \in DOMAIN fb.chat_files :
                    fb.chat_files[id].project_id = project_id}
    IN  List([k \in 1..Cardinality(ids) |->
                CHOOSE id \in ids :
                    Cardinality({other \in ids : IdBefore(other, id)}) = k - 1])

\* lines 387-389: the ids of the messages of the project
ProjectMessages(fb, project_id) ==
    {id \in DOMAIN fb.chat_messages :
        fb.chat_messages[id].project_id = project_id}

\* lines 401-402: the number of stored messages of the file
ActualMessages(fb, project_id, file_id) ==
    Cardinality({id \in ProjectMessages(fb, project_id) :
                    fb.chat_messages[id].file_id = file_id})

\* lines 405-411: the count on the file differs from the stored messages
CountIssue(file_data, actual_messages) ==
    IF file_data.message_count # actual_messages
    THEN <<[type |-> "incomplete_processing", check |-> "count",
            file_id |-> file_data.id, severity |-> "high"]>>
    ELSE <<>>

\* lines 415-423: the file is not 'processed'
StatusIssue(file_data) ==
    IF file_data.status # "processed"
    THEN <<[type |-> "incomplete_processing", check |-> "status",
            file_id |-> file_data.id,
            severity |-> IF file_data.status = "error" THEN "critical"
                         ELSE "medium"]>>
    ELSE <<>>

\* lines 427-435: the processing of the file counted errors
ErrorIssue(file_data) ==
    IF file_data.processing_metadata.error_count > 0
    THEN <<[type |-> "corrupted_data", check |-> "errors",
            file_id |-> file_data.id, severity |-> "medium"]>>
    ELSE <<>>

\* lines 395-436: the issues of one file
FileIssues(file_data, actual_messages) ==
    CountIssue(file_data, actual_messages) \o StatusIssue(file_data)
        \o ErrorIssue(file_data)

\* lines 395-436: the issues of the files from place k on
RECURSIVE IssuesFrom(_, _, _, _)
IssuesFrom(fb, project_id, files, k) ==
    IF k > Len(files) THEN <<>>
    ELSE FileIssues(fb.chat_files[files[k]],
                    ActualMessages(fb, project_id, files[k]))
             \o IssuesFrom(fb, project_id, files, k + 1)

\* lines 412, 424 and 436: what an issue takes off the score
Deduction(issue) ==
    CASE issue.check = "count"  -> 15
      [] issue.check = "status" -> IF issue.severity = "critical" THEN 20 ELSE 10
      [] issue.check = "errors" -> 5

RECURSIVE Deductions(_, _)
Deductions(issues, k) ==
    IF k > Len(issues) THEN 0
    ELSE Deduction(issues[k]) + Deductions(issues, k + 1)

\* the report without line 439
ScoreNotClamped(integrity_score) == integrity_score

\* line 439: integrity_score = max(0, integrity_score)
ClampScore(integrity_score) ==
    IF integrity_score < 0 THEN 0 ELSE integrity_score

AllPassed == "All data integrity checks passed - no action required"

\* lines 579-595: _generate_recommendations
GenerateRecommendations(issues) ==
    LET recommendations ==
            (IF \E k \in 1..Len(issues) : issues[k].type = "incomplete_processing"
             THEN <<"Re-process files with incomplete processing status">>
             ELSE <<>>)
            \o (IF \E k \in 1..Len(issues) : issues[k].type = "corrupted_data"
                THEN <<"Re-upload files with corrupted data">> ELSE <<>>)
            \o (IF \E k \in 1..Len(issues) : issues[k].severity = "critical"
                THEN <<"IMMEDIATE ACTION REQUIRED for critical data integrity issues">>
                ELSE <<>>)
    IN  IF recommendations = <<>> THEN <<AllPassed>> ELSE recommendations

\* lines 445-453: the report made of the issues found
ReportOf(project_id, files, project_messages, issues) ==
    [project_id       |-> project_id,
     files_checked    |-> Len(files),
     messages_checked |-> Cardinality(project_messages),
     integrity_score  |-> ClampScore(100 - Deductions(issues, 1)),
     issues           |-> issues,
     recommendations  |-> GenerateRecommendations(issues)]

\* lines 378-453: the report of the project
IntegrityReport(fb, project_id) ==
    ReportOf(project_id, ProjectFiles(fb, project_id),
             ProjectMessages(fb, project_id),
             IssuesFrom(fb, project_id, ProjectFiles(fb, project_id), 1))

\* lines 368-465: verify_data_completeness; without a database line 382
\* raises
verify_data_completeness(project_id, tick) ==
    /\ firebase.made
    /\ storing.pc = "idle"
    /\ session.pc = "none"
    /\ service_calls < MaxServiceCalls
    /\ service_calls' = service_calls + 1
    /\ clock' = clock + tick
    /\ IF firebase.db
       THEN /\ firebase' = [firebase EXCEPT !.integrity_reports =
                               (<<project_id, clock'>> :> IntegrityReport(firebase, project_id)) @@ @]
            /\ returned' = [call |-> "verify_data_completeness", raised |-> FALSE,
                            value |-> IntegrityReport(firebase, project_id)]
       ELSE /\ returned' = [call |-> "verify_data_completeness", raised |-> TRUE]
            /\ UNCHANGED firebase
    /\ UNCHANGED <<storing, session>>
    /\ UNCHANGED analyzerVars

\* lines 264-366 in one piece, for a list that fits one batch: the database
\* after the call; outcome is that of the one commit, or "outage"
StoredInOneBatch(fb, file_id, project_id, msgs, outcome) ==
    LET begun == UpdateFileStatus(fb, file_id, "processing")
        committed == outcome = "committed" /\ msgs # <<>>
        after ==
            IF committed
            THEN [begun EXCEPT !.chat_messages =
                     BatchDocuments(file_id, project_id, msgs, 1, Len(msgs)) @@ @]
            ELSE begun
    IN  IF outcome = "outage" THEN begun
        ELSE FileProcessed(after,
                 [file_id        |-> file_id,
                  total_messages |-> Len(msgs),
                  stored_count   |-> IF outcome = "committed" THEN Len(msgs) ELSE 0,
                  error_count    |-> IF outcome = "committed" THEN 0 ELSE Len(msgs)])

\* what can have happened to a file since its upload: the calls of
\* process_and_store_messages on it, each with the length of its list and
\* its outcome
FileHistories ==
    {<<>>,
     <<<<1, "outage">>>>,
     <<<<1, "committed">>>>,
     <<<<1, "commit_raised">>>>,
     <<<<0, "committed">>>>,
     <<<<2, "committed">>, <<1, "commit_raised">>>>}

RECURSIVE AfterHistory(_, _, _, _, _)
AfterHistory(fb, file_id, project_id, history, k) ==
    IF k > Len(history) THEN fb
    ELSE AfterHistory(
             StoredInOneBatch(fb, file_id, project_id,
                              MessageList(history[k][1]), history[k][2]),
             file_id, project_id, history, k + 1)

\* the database after uploads in the seconds 1..Len(histories), each file
\* with its history
RECURSIVE DatabaseOf(_, _)
DatabaseOf(histories, k) ==
    IF k = 0
    THEN [made |-> TRUE, db |-> TRUE, bucket |-> TRUE, chat_files |-> <<>>,
          chat_messages |-> <<>>, integrity_reports |-> <<>>]
    ELSE AfterHistory(
             Uploaded(DatabaseOf(histories, k - 1),
                      FileId("p1", k, NameOrder[1]), NameOrder[1], "p1"),
             FileId("p1", k, NameOrder[1]), "p1", histories[k], 1)

MaxFiles == 3

\* a service with a database of up to MaxFiles files
InitVerify ==
    /\ NewAnalyzer
    /\ \E n \in 0..MaxFiles : \E histories \in [1..n -> FileHistories] :
           /\ firebase = DatabaseOf(histories, n)
           /\ clock = n
    /\ storing = [pc |-> "idle"]
    /\ service_calls = 0
    /\ session = [pc |-> "none"]

NextVerify ==
    \E project_id \in ProjectIds, tick \in 0..1 :
        verify_data_completeness(project_id, tick)

SpecVerify == InitVerify /\ [][NextVerify]_vars

(***************************************************************************)
(* src/multi_file_upload.py: the upload page and the processing of the     *)
(* uploaded files, one action for each step of the loop over the files.    *)
(***************************************************************************)
\* two messages of two senders, one message, and a text without a message
ChatTwo == <<LineHello, LineEarlier>>
ChatOne == <<LineEarlier>>
NotChat == <<LineWorld>>

\* the files a user can pick; two of them have the same name
UploadedFiles ==
    {[name |-> "a.txt", lines |-> ChatTwo],
     [name |-> "a.txt", lines |-> NotChat],
     [name |-> "b.txt", lines |-> ChatOne]}

MaxSessionFiles == 2

\* lines 411-419: the lists of files for which the button is shown
FileLists == UNION {[1..k -> UploadedFiles] : k \in 1..MaxSessionFiles}

\* lines 153-154: a new analyzer after parse_whatsapp_export of the lines
ParsedAnalyzer(lines) ==
    ParseLines([messages |-> <<>>, participants |-> {}, current_message |-> FALSE],
               lines, 1)

\* `return {}`
NoProcessedData == [empty |-> TRUE]

\* lines 59-77: processed_data before the loop
NewProcessedData(files) ==
    [empty            |-> FALSE,
     files            |-> <<>>,
     combined         |-> [messages       |-> <<>>,
                           participants   |-> {},
                           total_messages |-> 0,
                           date_range     |-> [start |-> None, end |-> None],
                           file_count     |-> Len(files)],
     individual_stats |-> <<>>,
     firebase_storage |-> [files_uploaded          |-> 0,
                           files_processed         |-> 0,
                           messages_stored         |-> 0,
                           integrity_reports       |-> <<>>,
                           completeness_percentage |-> Ratio(0, 1),
                           storage_errors          |-> <<>>]]

\* lines 454-477: what the button handler does with the result
Handled(processed_data) ==
    IF ~processed_data.empty /\ processed_data.combined.total_messages > 0
    THEN [returned |-> "processed_data",
          has_data |-> TRUE,
          shown    |-> IF processed_data.firebase_storage.completeness_percentage
                              = Hundred
                       THEN "100% SUCCESS" ELSE "Partial Success"]
    ELSE [returned |-> None,
          has_data |-> FALSE,
          shown    |-> "No valid data could be processed from the uploaded files."]

\* lines 439-452 and 51-95: the button is pressed on the chosen files and
\* process_files_with_firebase_storage begins
process_button(files) ==
    /\ firebase.made
    /\ storing.pc = "idle"
    /\ session.pc = "none"
    /\ IF files = <<>> \/ ~firebase.db
       THEN \* lines 51-56
            session' = [pc             |-> "done",
                        files          |-> files,
                        processed_data |-> NoProcessedData,
                        handler        |-> Handled(NoProcessedData)]
       ELSE session' = [pc                |-> "upload",
                        files             |-> files,
                        i                 |-> 1,
                        processed_data    |-> NewProcessedData(files),
                        analyzers         |-> <<>>,
                        combined_messages |-> <<>>,
                        all_participants  |-> {},
                        all_dates         |-> <<>>,
                        chat_file         |-> None,
                        analyzer          |-> None,
                        storage_result    |-> None,
                        outcomes          |-> <<>>]
    /\ UNCHANGED <<clock, firebase, storing, service_calls, returned>>
    /\ UNCHANGED analyzerVars

\* the file of the round
CurrentFile == session.files[session.i]

\* the append of a storage_errors entry for the file of the round
StorageError(s, step) ==
    [s EXCEPT !.processed_data.firebase_storage.storage_errors =
                  Append(@, [file |-> s.files[s.i].name, step |-> step])]

\* the round of the file ends: the loop goes to the next file, or ends;
\* outcome is kept as the record of what happened to the file
NextFile(s, outcome) ==
    [s EXCEPT !.i = @ + 1,
              !.pc = IF s.i + 1 > Len(s.files) THEN "finish" ELSE "upload",
              !.outcomes = Append(@, outcome)]

\* lines 113-140: STEP 1, the upload
UploadStep(tick, stored) ==
    LET file_id == FileId("p1", clock + tick, CurrentFile.name)
    IN  /\ session.pc = "upload"
        /\ IF firebase.bucket /\ stored
           THEN /\ clock' = clock + tick
                /\ firebase' = Uploaded(firebase, file_id, CurrentFile.name, "p1")
                /\ session' = [session EXCEPT
                       !.pc = "parse",
                       !.chat_file = file_id,
                       !.processed_data.firebase_storage.files_uploaded = @ + 1]
           ELSE \* lines 133-140
                /\ tick = 0
                /\ session' = NextFile(StorageError(session, "upload"),
                                       "upload_raised")
                /\ UNCHANGED <<clock, firebase>>
        /\ UNCHANGED <<storing, service_calls, returned>>
        /\ UNCHANGED analyzerVars

\* lines 146-173: STEP 2, the parse by a new analyzer
ParseStep ==
    /\ session.pc = "parse"
    /\ IF ParsedAnalyzer(CurrentFile.lines).messages = <<>>
       THEN \* lines 159-160 and 166-173
            session' = NextFile(StorageError(session, "parse"), "parse_raised")
       ELSE session' = [session EXCEPT
                !.pc = "store",
                !.analyzer = [df |-> ParsedAnalyzer(CurrentFile.lines).messages,
                              participants |->
                                  ParsedAnalyzer(CurrentFile.lines).participants],
                !.analyzers = (CurrentFile.name :> CurrentFile.lines) @@ @]
    /\ UNCHANGED <<clock, firebase, storing, service_calls, returned>>
    /\ UNCHANGED analyzerVars

\* lines 356-361: what process_and_store_messages returns for a list of one
\* batch
StoreResult(msgs, outcome) ==
    [stored         |-> IF outcome = "committed" THEN Len(msgs) ELSE 0,
     errors         |-> IF outcome = "committed" THEN 0 ELSE Len(msgs),
     completeness   |-> Completeness(IF outcome = "committed" THEN Len(msgs) ELSE 0,
                                     Len(msgs)),
     total_messages |-> Len(msgs)]

\* lines 203-212 counting the file whatever its completeness
CountedAlways(s, storage_result) ==
    [s EXCEPT !.processed_data.firebase_storage.files_processed = @ + 1]

\* lines 203-212: the file is counted, or gets a storage_errors entry
Counted(s, storage_result) ==
    IF storage_result.completeness = Hundred
    THEN [s EXCEPT !.processed_data.firebase_storage.files_processed = @ + 1]
    ELSE StorageError(s, "message_storage")

\* lines 217-224 without the continue
StoreRaisedGoesOn(s) ==
    [StorageError(s, "message_storage") EXCEPT
        !.pc = "validate",
        !.storage_result = [raised |-> TRUE]]

\* lines 217-224: the store raised
StoreRaised(s) == NextFile(StorageError(s, "message_storage"), "store_raised")

\* lines 179-224: STEP 3, the messages are stored; outcome is that of the
\* one batch of the file, or "outage"
StoreStep(outcome) ==
    /\ session.pc = "store"
    /\ firebase' = StoredInOneBatch(firebase, session.chat_file, "p1",
                                    session.analyzer.df, outcome)
    /\ IF outcome = "outage"
       THEN session' = StoreRaised(session)
       ELSE session' = Counted(
                [session EXCEPT
                    !.pc = "validate",
                    !.storage_result = StoreResult(session.analyzer.df, outcome),
                    !.processed_data.firebase_storage.messages_stored =
                        @ + StoreResult(session.analyzer.df, outcome).stored],
                StoreResult(session.analyzer.df, outcome))
    /\ UNCHANGED <<clock, storing, service_calls, returned>>
    /\ UNCHANGED analyzerVars

\* lines 248-271: the statistics, messages, participants and dates of the
\* file are added; stats is what get_basic_stats gave
Collected(s, stats) ==
    [s EXCEPT
        !.processed_data.individual_stats = (s.files[s.i].name :> stats.value) @@ @,
        !.processed_data.files =
            (s.files[s.i].name :> [stats          |-> stats.value,
                                   firebase_file  |-> s.chat_file,
                                   storage_result |-> s.storage_result]) @@ @,
        !.combined_messages = @ \o s.analyzer.df,
        !.all_participants = @ \cup s.analyzer.participants,
        !.all_dates = @ \o <<MinDate(stats.df), MaxDate(stats.df)>>]

\* what is kept of a round that reached the end of the loop body
Passed(s) ==
    IF "raised" \in DOMAIN s.storage_result THEN "store_raised"
    ELSE IF s.storage_result.completeness = Hundred THEN "complete"
    ELSE "incomplete"

\* lines 229-271: STEP 4, the integrity report of the project, and the
\* collection of the file's data; raised is whether the verification raised
ValidateStep(raised) ==
    /\ session.pc = "validate"
    /\ IF raised
       THEN /\ session' = NextFile(
                    Collected(StorageError(session, "validation"),
                              BasicStats(session.analyzer.df,
                                         session.analyzer.participants)),
                    Passed(session))
            /\ UNCHANGED firebase
       ELSE /\ firebase' = [firebase EXCEPT !.integrity_reports =
                               (<<"p1", clock>> :> IntegrityReport(firebase, "p1")) @@ @]
            /\ session' = NextFile(
                    Collected([session EXCEPT
                                  !.processed_data.firebase_storage.integrity_reports =
                                      Append(@, IntegrityReport(firebase, "p1"))],
                              BasicStats(session.analyzer.df,
                                         session.analyzer.participants)),
                    Passed(session))
    /\ UNCHANGED <<clock, storing, service_calls, returned>>
    /\ UNCHANGED analyzerVars

\* min(all_dates) and max(all_dates)
MinOf(dates) ==
    CHOOSE x \in {dates[k] : k \in 1..Len(dates)} :
        \A k \in 1..Len(dates) : ~Earlier(dates[k], x)
MaxOf(dates) ==
    CHOOSE x \in {dates[k] : k \in 1..Len(dates)} :
        \A k \in 1..Len(dates) : ~Earlier(x, dates[k])

\* lines 285-300: the combined data, set if a message was collected
Combined(s) ==
    IF s.combined_messages = <<>> THEN s.processed_data.combined
    ELSE [s.processed_data.combined EXCEPT
             !.messages = s.combined_messages,
             !.participants = s.all_participants,
             !.total_messages = Len(s.combined_messages),
             !.date_range = [start |-> MinOf(s.all_dates),
                             end |-> MaxOf(s.all_dates)]]

\* lines 306-309: the share of the files that were counted
FilesCompleteness(s) ==
    Ratio(s.processed_data.firebase_storage.files_processed * 100, Len(s.files))

\* lines 284-325: after the loop
AfterFiles(s) ==
    [s EXCEPT !.processed_data.combined = Combined(s),
              !.processed_data.firebase_storage.completeness_percentage =
                  FilesCompleteness(s)]

\* lines 284-325 and 454-477: the loop is over, the project is updated and
\* saved, and the button handler shows the result
FinishStep ==
    /\ session.pc = "finish"
    /\ session' = [pc             |-> "done",
                   files          |-> session.files,
                   outcomes       |-> session.outcomes,
                   processed_data |-> AfterFiles(session).processed_data,
                   project        |-> [message_count |-> Len(session.combined_messages),
                                       participants  |-> session.all_participants],
                   handler        |-> Handled(AfterFiles(session).processed_data)]
    /\ UNCHANGED <<clock, firebase, storing, service_calls, returned>>
    /\ UNCHANGED analyzerVars

NextUpload ==
    \/ \E outcome \in {"ok", "no_bucket", "failed"} : NewFirebaseService(outcome)
    \/ \E files \in FileLists : process_button(files)
    \/ \E tick \in 0..1, stored \in BOOLEAN : UploadStep(tick, stored)
    \/ ParseStep
    \/ \E outcome \in {"committed", "commit_raised", "outage"} : StoreStep(outcome)
    \/ \E raised \in BOOLEAN : ValidateStep(raised)
    \/ FinishStep

SpecUpload == Init /\ [][NextUpload]_vars

(***************************************************************************)
(* What the claims say about a line, stated from the line alone.           *)
(***************************************************************************)
\* the line matches the message-start grammar
IsStartLine(line) == ReMatch(Strip(line)).ok

\* the date and time of a start line as written, read as day/month/year with
\* a four-digit year and a 24-hour time
StrictTimestamp(line) ==
    LET m == ReMatch(Strip(line))
    IN  Strptime(m.date_str \o <<" ">> \o m.time_str)

\* the date of a start line with a two-digit year yy, read as day/month/20yy
TwoDigitYearDate(line) ==
    LET m == ReMatch(Strip(line))
        f == Split(m.date_str, "/")
    IN  IF Len(f[3]) = 2
        THEN Strptime(f[1] \o <<"/">> \o f[2] \o <<"/", "2", "0">> \o f[3]
                          \o <<" ">> \o m.time_str)
        ELSE NoDate

\* a placeholder line: begins with the left-to-right mark or contains, in any
\* letter case, one of the six phrases
PlaceholderLine(line) ==
    LET t == Strip(line)
    IN  \/ (t # <<>> /\ t[1] = "LRM")
        \/ \E phrase \in PlaceholderPhrases :
              \E i \in 1..Len(t) :
                  /\ i + Len(phrase) - 1 <= Len(t)
                  /\ \A k \in 1..Len(phrase) : LowerChar(t[i + k - 1]) = phrase[k]

Fact(line) ==
    LET t == Strip(line)
        start == IsStartLine(line)
        ts == IF start THEN StrictTimestamp(line) ELSE NoDate
        y2 == IF start THEN TwoDigitYearDate(line) ELSE NoDate
    IN  [blank       |-> t = <<>>,
         start       |-> start,
         begins      |-> start /\ ts.ok,     \* the line begins a message
         ts          |-> ts,
         year2       |-> y2,
         sender      |-> IF start THEN Strip(ReMatch(t).sender) ELSE <<>>,
         body        |-> IF start THEN Strip(ReMatch(t).message) ELSE <<>>,
         text        |-> t,
         placeholder |-> ~start /\ PlaceholderLine(line)]

\* Fact of every line of the pool, computed once
Facts == [j \in 1..Len(AllLines) |-> Fact(AllLines[j])]
FactOf(line) == Facts[PoolIndex(line)]

\* the first call on the new analyzer has returned from reading a text file
FreshParse == calls = 1 /\ input.kind = "text"

\* the positions in lines of the lines that begin a message, in source order
BeginIdx(lines) == {i \in 1..Len(lines) : FactOf(lines[i]).begins}

\* the position of the k-th line that begins a message
KthBegin(lines, k) ==
    CHOOSE i \in BeginIdx(lines) :
        Cardinality({h \in BeginIdx(lines) : h < i}) = k - 1

\* a new analyzer's loop state
FreshState == [messages |-> <<>>, participants |-> {}, current_message |-> FALSE]

TimestampTuple(ts) == <<ts.year, ts.month, ts.day, ts.hour, ts.minute, ts.second>>

(***************************************************************************)
(* C1..C10: the parser.                                                    *)
(***************************************************************************)

\* C1: after one parse on a new analyzer, the number of parsed messages is the
\* number of lines that match the message-start grammar and whose date and
\* time parse as day/month/four-digit-year and 24-hour time; dropped, blank,
\* continuation and placeholder lines add nothing.
C1_MessageCount ==
    FreshParse => Len(messages) = Cardinality(BeginIdx(input.lines))

\* two messages were parsed from a file that also holds a dropped start line
C1_Witness ==
    /\ FreshParse
    /\ Len(messages) = 2
    /\ \E i \in 1..Len(input.lines) :
          FactOf(input.lines[i]).start /\ ~FactOf(input.lines[i]).begins

\* C2: a start line with a two-digit year yy and a valid day, month and time
\* yields a message dated day/month/20yy.
C2_TwoDigitYear ==
    FreshParse =>
        \A i \in 1..Len(input.lines) :
            LET f == FactOf(input.lines[i])
            IN  f.year2.ok =>
                    \E k \in 1..Len(messages) :
                        /\ messages[k].year = f.year2.year
                        /\ messages[k].date =
                               <<f.year2.year, f.year2.month, f.year2.day>>
                        /\ messages[k].sender = f.sender

\* the text after the start-line body: one space and the trimmed line for
\* every line of lines[i..e] that is neither blank, nor a start line, nor a
\* placeholder
RECURSIVE Continuations(_, _, _)
Continuations(lines, i, e) ==
    IF i > e THEN <<>>
    ELSE LET f == FactOf(lines[i])
         IN  (IF ~f.blank /\ ~f.start /\ ~f.placeholder
              THEN <<" ">> \o f.text ELSE <<>>)
                 \o Continuations(lines, i + 1, e)

\* the text of the k-th message of lines: its lines run from its start line
\* to the line before the next line that begins a message
ExpectedText(lines, k) ==
    LET b == KthBegin(lines, k)
        e == IF k < Cardinality(BeginIdx(lines))
             THEN KthBegin(lines, k + 1) - 1 ELSE Len(lines)
    IN  FactOf(lines[b]).body \o Continuations(lines, b + 1, e)

\* C3: the final text of a message is its trimmed start-line body followed,
\* for each non-placeholder continuation line after it and before the next
\* message, by one space and the trimmed line, in source order.
C3_ContinuationText ==
    FreshParse =>
        /\ Len(messages) = Cardinality(BeginIdx(input.lines))
        /\ \A k \in 1..Len(messages) :
              /\ messages[k].message = ExpectedText(input.lines, k)
              /\ df[k].message = ExpectedText(input.lines, k)

\* "Hello", " world " and "again" were joined to "Hello world again"
C3_Witness ==
    /\ FreshParse
    /\ input.lines = <<LineHello, LineWorld, LineAgain>>
    /\ Len(messages) = 1
    /\ messages[1].message =
           <<"H", "e", "l", "l", "o", " ", "w", "o", "r", "l", "d", " ", "a", "g", "a", "i", "n">>

WithoutPlaceholders(lines) ==
    SelectSeq(lines, LAMBDA l : ~FactOf(l).placeholder)

\* C4: a continuation line that begins with the left-to-right mark or holds
\* one of the six placeholder phrases in any letter case is discarded: the
\* parse gives what it gives for the file without those lines.
C4_PlaceholderDiscarded ==
    FreshParse =>
        LET st == ParseLines(FreshState, WithoutPlaceholders(input.lines), 1)
        IN  /\ messages = st.messages
            /\ participants = st.participants

\* a placeholder line stood between a message start and a continuation line
C4_Witness ==
    /\ FreshParse
    /\ Len(input.lines) = 3
    /\ FactOf(input.lines[1]).begins
    /\ FactOf(input.lines[2]).placeholder
    /\ input.lines[3] = LineAgain
    /\ Len(messages) = 1

\* C5: a call returns True exactly when it constructed at least one message
\* from the file it read, whatever calls came before.
C5_TrueIffMessage ==
    (calls >= 1 /\ result \in {"True", "False"}) =>
        (result = "True" <=> trace[calls].added >= 1)

\* C6: the outcome of a call that could not read its file differs from the
\* outcome of a call that read a file without any parseable message.
C6_LoadErrorDistinct ==
    \A a, b \in 1..Len(trace) :
        (/\ trace[a].kind \in {"missing", "undecodable"}
         /\ trace[b].kind = "text" /\ trace[b].added = 0)
            => trace[a].result # trace[b].result

\* C7: a new analyzer that parses a file without any line that begins a
\* message returns False, records no message and keeps df None.
C7_EmptyResult ==
    (FreshParse /\ BeginIdx(input.lines) = {}) =>
        /\ result = "False"
        /\ messages = <<>>
        /\ df = None

\* the file held a dropped start line and a line that matches no grammar
C7_Witness ==
    /\ FreshParse
    /\ BeginIdx(input.lines) = {}
    /\ \E i, j \in 1..Len(input.lines) :
          /\ FactOf(input.lines[i]).start
          /\ ~FactOf(input.lines[j]).start /\ ~FactOf(input.lines[j]).blank
    /\ result = "False"

\* C8: after any call that read a file, messages, df and participants hold
\* what that file alone gives.
C8_ReplacedOnReparse ==
    (calls >= 1 /\ input.kind = "text") =>
        LET st == ParseLines(FreshState, input.lines, 1)
        IN  /\ messages = st.messages
            /\ participants = st.participants
            /\ df # None => df = st.messages

\* C9: no message has an empty sender, and the empty string is no participant.
C9_SenderNonEmpty ==
    /\ \A k \in 1..Len(messages) : messages[k].sender # <<>>
    /\ <<>> \notin participants

\* C10: the messages are stored in the order of their start lines, the
\* message_index derived from the list position is strictly increasing in
\* that order, and timestamps are kept as they come.
C10_SourceOrder ==
    FreshParse =>
        /\ Len(messages) = Cardinality(BeginIdx(input.lines))
        /\ \A k \in 1..Len(messages) :
              LET f == FactOf(input.lines[KthBegin(input.lines, k)])
                  docs == ChatMessages(df)
              IN  /\ messages[k].datetime = TimestampTuple(f.ts)
                  /\ messages[k].sender = f.sender
                  /\ docs[k].timestamp = TimestampTuple(f.ts)
                  /\ docs[k].message_index = k - 1
                  /\ k > 1 => docs[k].message_index > docs[k - 1].message_index

\* the second message of the file carries the earlier timestamp
C10_Witness ==
    /\ FreshParse
    /\ Len(messages) = 2
    /\ Earlier(messages[2].datetime, messages[1].datetime)
    /\ ChatMessages(df)[2].message_index = 1

(***************************************************************************)
(* C11..C20: dates, dropped lines and the analyzers.                       *)
(***************************************************************************)

\* the three numbers of the date of a start line, in the order they are
\* written; the empty tuple for any other line
DateFields(line) ==
    LET m == ReMatch(Strip(line))
        f == Split(m.date_str, "/")
    IN  IF m.ok THEN <<IntOf(f[1]), IntOf(f[2]), IntOf(f[3])>> ELSE <<>>

\* DateFields of every line of the pool, computed once
DateTable == [j \in 1..Len(AllLines) |-> DateFields(AllLines[j])]
DateFieldsOf(line) == DateTable[PoolIndex(line)]

\* C11: the date a/b/yyyy of a start line is read as day a of month b: the
\* message it yields has day a and month b, and a start line whose second
\* field is no month yields no message, not even one dated month a, day b.
C11_DayMonthYear ==
    FreshParse =>
        /\ Len(messages) = Cardinality(BeginIdx(input.lines))
        /\ \A k \in 1..Len(messages) :
              LET d == DateFieldsOf(input.lines[KthBegin(input.lines, k)])
              IN  /\ messages[k].date = <<d[3], d[2], d[1]>>
                  /\ messages[k].datetime[2] = d[2]
                  /\ messages[k].datetime[3] = d[1]
                  /\ messages[k].month = MonthNames[d[2]]
        /\ \A i \in 1..Len(input.lines) :
              LET d == DateFieldsOf(input.lines[i])
              IN  (d # <<>> /\ d[2] \notin 1..12) =>
                      /\ i \notin BeginIdx(input.lines)
                      /\ ~\E k \in 1..Len(messages) :
                             /\ messages[k].sender = FactOf(input.lines[i]).sender
                             /\ messages[k].date = <<d[3], d[1], d[2]>>

\* 04/13/2024 was dropped and 03/04/2024 became 3 April 2024
C11_Witness ==
    /\ FreshParse
    /\ input.lines = <<LineMonth13, LineHello>>
    /\ Len(messages) = 1
    /\ messages[1].date = <<2024, 4, 3>>
    /\ messages[1].month = "April"

\* the last call was the analyzer `call` and it returned a value
Returned(call) == returned.call = call /\ "value" \in DOMAIN returned

\* the last call was the analyzer `call` and it returned more than {}
Reported(call) == Returned(call) /\ returned.value # EmptyDict

\* the object holds a DataFrame with at least one row
HasCorpus == IF df = None THEN FALSE ELSE df # <<>>

\* the day number of the date of a parsed message
MessageOrdinal(msg) == ToOrdinal(msg.date[1], msg.date[2], msg.date[3])

SetMax(S) == CHOOSE x \in S : \A y \in S : y <= x
SetMin(S) == CHOOSE x \in S : \A y \in S : x <= y

\* C12: for a corpus with at least one message get_basic_stats reports
\* total_days = (latest date - earliest date) in whole days + 1, which is at
\* least 1 and exactly 1 when every message has the same date, and
\* messages_per_day = total_messages / total_days.
C12_TotalDays ==
    (returned.call = "get_basic_stats" /\ HasCorpus) =>
        /\ Reported("get_basic_stats")
        /\ LET v == returned.value
               ords == {MessageOrdinal(messages[k]) : k \in 1..Len(messages)}
           IN  /\ v.total_messages = Len(messages)
               /\ v.total_days = SetMax(ords) - SetMin(ords) + 1
               /\ v.total_days >= 1
               /\ Cardinality(ords) = 1 => v.total_days = 1
               /\ v.messages_per_day.den > 0
               /\ v.messages_per_day.num * v.total_days
                      = v.messages_per_day.den * v.total_messages

\* two messages, of 5 April and 1 January 2024: 96 days, 2/96 = 1/48 a day
C12_Witness ==
    /\ Reported("get_basic_stats")
    /\ Len(messages) = 2
    /\ returned.value.total_days = 96
    /\ returned.value.messages_per_day = [num |-> 1, den |-> 48]

\* the polarity TextBlob gave the text of the k-th parsed message
ScoreOf(k) == polarity[messages[k].message]

\* C13: get_sentiment_analysis counts every message in exactly one bucket:
\* positive above 0.1, negative below -0.1, neutral from -0.1 to 0.1 with
\* both ends neutral, so the three counts add up to the number of messages.
C13_SentimentBuckets ==
    (returned.call = "get_sentiment_analysis" /\ HasCorpus) =>
        /\ Reported("get_sentiment_analysis")
        /\ LET v == returned.value
               rows == 1..Len(messages)
           IN  /\ v.positive_messages = Cardinality({k \in rows : ScoreOf(k) > 10})
               /\ v.negative_messages = Cardinality({k \in rows : ScoreOf(k) < -10})
               /\ v.neutral_messages =
                      Cardinality({k \in rows : ScoreOf(k) >= -10 /\ ScoreOf(k) <= 10})
               /\ v.positive_messages + v.negative_messages + v.neutral_messages
                      = Len(messages)
               /\ \A k \in rows : df[k].sentiment = ScoreOf(k)

\* one message scored 0.1 and one scored -0.1: both counted neutral
C13_Witness ==
    /\ Reported("get_sentiment_analysis")
    /\ Len(messages) = 2
    /\ ScoreOf(1) = 10
    /\ ScoreOf(2) = -10
    /\ returned.value.neutral_messages = 2
    /\ returned.value.positive_messages = 0

\* the position of the first occurrence of token t in tokens
FirstSeen(tokens, t) ==
    CHOOSE i \in 1..Len(tokens) :
        tokens[i] = t /\ \A j \in 1..(i - 1) : tokens[j] # t

Occurrences(tokens, t) == Cardinality({i \in 1..Len(tokens) : tokens[i] = t})

Smaller(a, b) == IF a < b THEN a ELSE b

\* top lists cap of the distinct tokens with their counts: by falling count,
\* equal counts in the order the tokens were first met, and no token left
\* out has a higher count than a listed one
IsTopList(top, tokens, cap) ==
    LET distinct == {tokens[i] : i \in 1..Len(tokens)}
        listed == {top[i].key : i \in 1..Len(top)}
    IN  /\ Len(top) = Smaller(cap, Cardinality(distinct))
        /\ Len(top) <= cap
        /\ listed \subseteq distinct
        /\ Cardinality(listed) = Len(top)
        /\ \A i \in 1..Len(top) : top[i].count = Occurrences(tokens, top[i].key)
        /\ \A i, j \in 1..Len(top) :
              i < j =>
                  /\ top[i].count >= top[j].count
                  /\ top[i].count = top[j].count =>
                         FirstSeen(tokens, top[i].key) < FirstSeen(tokens, top[j].key)
        /\ \A t \in distinct \ listed :
              \A i \in 1..Len(top) : Occurrences(tokens, t) <= top[i].count

\* C14: top_words and top_emojis are listed by falling count, entries of equal
\* count in the order they were first met in the corpus; top_words has at most
\* 20 entries and top_emojis at most 10, and no token or emoji left out has a
\* higher count than a listed one.
C14_TopLists ==
    /\ (returned.call = "get_word_analysis" /\ HasCorpus) =>
           /\ Reported("get_word_analysis")
           /\ IsTopList(returned.value.top_words, Gather(messages, WordsOf, 1), 20)
    /\ (returned.call = "get_emoji_analysis" /\ HasCorpus) =>
           /\ Reported("get_emoji_analysis")
           /\ IsTopList(returned.value.top_emojis, Gather(messages, EmojiList, 1), 10)

\* 22 words, "u" and "ok" twice each and "u" met first: top_words lists "u",
\* "ok" and eighteen of the other twenty; the emojis had been analyzed before
C14_Witness ==
    /\ Reported("get_word_analysis")
    /\ input.lines = <<LineMany, LineEmoji>>
    /\ Len(returned.value.top_words) = 20
    /\ returned.value.top_words[1] = [key |-> <<"u">>, count |-> 2]
    /\ returned.value.top_words[2] = [key |-> <<"o", "k">>, count |-> 2]
    /\ returned.value.top_words[3] = [key |-> <<"a">>, count |-> 1]
    /\ returned.value.unique_words = 22
    /\ "emoji_count" \in Columns(df)
    /\ df[1].emoji_count = 11

\* the six analyzers
Analyzers ==
    {"get_basic_stats", "get_message_activity_by_hour",
     "get_message_activity_by_day", "get_emoji_analysis", "get_word_analysis",
     "get_sentiment_analysis"}

\* C15: an analyzer called when the DataFrame is absent (None) or has no rows
\* raises nothing and returns an empty or default result, {} when it is absent.
C15_NoRaiseWithoutCorpus ==
    (returned.call \in Analyzers /\ ~HasCorpus) =>
        /\ "raised" \notin DOMAIN returned
        /\ df = None => returned.value = EmptyDict

\* the trimmed senders of the lines of the file that begin a message
SendersOf(lines) == {FactOf(lines[i]).sender : i \in BeginIdx(lines)}

\* C16: after the first parse of a new analyzer the participants are exactly
\* the distinct trimmed senders of the parsed messages, so get_basic_stats
\* reports as many participants as messages_per_participant has keys; the
\* sender of a start line dropped for its timestamp is a participant only if
\* another of its lines begins a message.
C16_Participants ==
    FreshParse =>
        /\ participants = {messages[k].sender : k \in 1..Len(messages)}
        /\ participants = SendersOf(input.lines)
        /\ \A i \in 1..Len(input.lines) :
              LET f == FactOf(input.lines[i])
              IN  (f.start /\ ~f.begins /\ f.sender \notin SendersOf(input.lines))
                      => f.sender \notin participants
        /\ (returned.call = "get_basic_stats" /\ HasCorpus) =>
              /\ Reported("get_basic_stats")
              /\ DOMAIN returned.value.messages_per_participant = participants
              /\ returned.value.total_participants =
                     Cardinality(DOMAIN returned.value.messages_per_participant)

\* one message of A and one of B: two participants, two keys
C16_Witness ==
    /\ FreshParse
    /\ Reported("get_basic_stats")
    /\ Len(messages) = 2
    /\ participants = {<<"A">>, <<"B">>}
    /\ returned.value.total_participants = 2
    /\ returned.value.messages_per_participant = (<<"A">> :> 1) @@ (<<"B">> :> 1)

\* the step is a call of export_analysis_report
ExportStep ==
    /\ analyses' = analyses + 1
    /\ returned'.call = "export_analysis_report"

\* C17: export_analysis_report writes the report only when there is a corpus:
\* with df None it logs a warning, runs no analyzer and writes no file; after
\* a successful parse it writes exactly one file, at output_path; and no other
\* call writes a file.
C17_ReportOnlyWithCorpus ==
    [][/\ (ExportStep /\ df = None) =>
              /\ written' = written
              /\ logged' = "No data to analyze"
              /\ df' = None
              /\ polarity' = polarity
       /\ (ExportStep /\ HasCorpus /\ result = "True") =>
              written' = Append(written, returned'.output_path)
       /\ ~ExportStep => written' = written]_vars

\* a report was written at the path given after a parse that returned True
C17_Witness ==
    /\ returned.call = "export_analysis_report"
    /\ result = "True"
    /\ written = <<"report.html">>
    /\ logged = "Analysis report saved"

\* the position of the first line after position b that matches the
\* message-start grammar, Len(lines) + 1 if there is none
NextStartLine(lines, b) ==
    IF \E i \in (b + 1)..Len(lines) : FactOf(lines[i]).start
    THEN CHOOSE i \in (b + 1)..Len(lines) :
             /\ FactOf(lines[i]).start
             /\ \A j \in (b + 1)..(i - 1) : ~FactOf(lines[j]).start
    ELSE Len(lines) + 1

\* the text of the k-th message if every line that matches the grammar seals
\* the message before it
SealedText(lines, k) ==
    LET b == KthBegin(lines, k)
    IN  FactOf(lines[b]).body
            \o Continuations(lines, b + 1, NextStartLine(lines, b) - 1)

\* C18: a line that matches the message-start grammar seals the message
\* before it even when its timestamp does not parse: the text of a message
\* ends with the last continuation line before the next line that matches
\* the grammar, and lines after a dropped start line are appended to nothing.
C18_SealedByStartLine ==
    FreshParse =>
        /\ Len(messages) = Cardinality(BeginIdx(input.lines))
        /\ \A k \in 1..Len(messages) :
              messages[k].message = SealedText(input.lines, k)

\* the line matches the grammar and its date and time fail strict parsing
DroppedLine(line) == FactOf(line).start /\ ~FactOf(line).begins

NotDropped(line) == ~DroppedLine(line)

\* C19: a start line whose date and time fail strict parsing is dropped
\* entirely: it creates no message, adds no participant and no part of it
\* reaches the text of any message, so the parse gives what it gives for the
\* file without that line.
C19_DroppedEntirely ==
    FreshParse =>
        LET st == ParseLines(FreshState, SelectSeq(input.lines, NotDropped), 1)
        IN  /\ messages = st.messages
            /\ participants = st.participants
            /\ Len(messages) =
                   Cardinality({i \in 1..Len(input.lines) :
                                   FactOf(input.lines[i]).start
                                       /\ NotDropped(input.lines[i])})

\* a dropped start line of sender C stood after the one message of the file
C19_Witness ==
    /\ FreshParse
    /\ Len(input.lines) = 3
    /\ input.lines[1] = LineHello
    /\ input.lines[2] = LineMonth13
    /\ Len(messages) = 1
    /\ participants = {<<"A">>}

\* the columns the parser produces (lines 187-197)
ParserColumns ==
    {"datetime", "date", "time", "sender", "message", "hour", "day_of_week",
     "month", "year"}

\* C20: no analyzer changes a column produced by the parser: whatever
\* analyzers were called, every parser column of df holds the values and
\* types it held right after the parse, and the only other columns are
\* emoji_count and sentiment.
C20_ParserColumnsKept ==
    HasCorpus =>
        /\ Len(df) = Len(messages)
        /\ Columns(df) \ ParserColumns \subseteq {"emoji_count", "sentiment"}
        /\ \A k \in 1..Len(df) :
              \A col \in ParserColumns : df[k][col] = messages[k][col]

(***************************************************************************)
(* C21..C30: call order, the PDF check, storage and the upload session.    *)
(***************************************************************************)
\* DataFrame(self.messages): the DataFrame as the parse left it
FreshDf == messages

\* what the analyzer `call` returns on the DataFrame as the parse left it
FreshValue(call) ==
    CASE call = "get_basic_stats" -> BasicStats(FreshDf, participants).value
      [] call = "get_message_activity_by_hour" -> ActivityByHour(FreshDf).value
      [] call = "get_message_activity_by_day" -> ActivityByDay(FreshDf).value
      [] call = "get_emoji_analysis" -> EmojiAnalysis(FreshDf).value
      [] call = "get_word_analysis" -> WordAnalysis(FreshDf).value
      [] call = "get_sentiment_analysis" ->
             SentimentAnalysis(FreshDf, polarity).value

\* C21: for a parsed corpus every analyzer returns what it returns on the
\* DataFrame as the parse left it, whichever analyzers or exports ran before
\* it and however often it was called.
C21_OrderIndependent ==
    (result = "True" /\ returned.call \in Analyzers) =>
        /\ "value" \in DOMAIN returned
        /\ returned.value = FreshValue(returned.call)

\* get_basic_stats was called after an export had run all six analyzers,
\* which left Timestamps in the date column and two more columns
C21_Witness ==
    /\ result = "True"
    /\ written # <<>>
    /\ Returned("get_basic_stats")
    /\ returned.value.total_messages = 2
    /\ DateDtype(df) = "datetime64[ns]"
    /\ {"emoji_count", "sentiment"} \subseteq Columns(df)

\* What C22 says of a page of the pool, stated from the page alone: it holds
\* an indicator, it is a line that begins with a bracketed date and holds a
\* colon after the bracket, and the number of its lines.
PageIndicator(page) == page \in {PdfStart, PdfDash, PdfPhrase}
PageShaped(page) == page \in {PdfShape, PdfStart}
PageLineCount(page) == IF page = LongPage THEN ScanLines - 1 ELSE 1

\* the number of the line of the text that page k begins
RECURSIVE PageFirstLine(_, _)
PageFirstLine(pages, k) ==
    IF k = 1 THEN 1
    ELSE PageFirstLine(pages, k - 1) + PageLineCount(pages[k - 1])

ShapedInWindow(pages) ==
    {k \in DOMAIN pages : PageShaped(pages[k]) /\ PageFirstLine(pages, k) <= 50}

ClaimedChat(pages) ==
    \/ \E k \in DOMAIN pages : PageIndicator(pages[k])
    \/ Cardinality(ShapedInWindow(pages)) >= 2

\* the text begins with the characters of c, a newline of the text read as a
\* space of c
SampleOf(c, pages) ==
    /\ pages # <<>> =>
          \A i \in 1..Len(pages[1]) :
              i <= Len(c) /\ c[i] = (IF pages[1][i] = "\n" THEN " " ELSE pages[1][i])
    /\ pages = <<>> => c = <<>>

PdfLoaded == calls >= 1 /\ input.kind = "pdf"

\* C22: the text of a PDF is taken for a chat exactly when it holds an
\* indicator (a bracketed timestamp, a dash-separated timestamp or a known
\* phrase in any letter case) or at least 2 of its first 50 lines begin with a
\* bracketed date followed by a colon; lines after the 50th do not count.  A
\* PDF that is not taken for a chat makes the load fail, with an error that
\* carries the beginning of the text.
C22_PdfCheck ==
    PdfLoaded =>
        IF ClaimedChat(input.pages)
        THEN /\ input.error = NoError
             /\ logged = None
        ELSE /\ input.error # NoError
             /\ result = "False"
             /\ trace[calls].added = 0
             /\ logged.message = "Error parsing file"
             /\ logged.error.type = "ValueError"
             /\ SampleOf(logged.error.sample, input.pages)

\* a PDF with two message-like lines, the second of them the 51st line, was
\* rejected
C22_Witness ==
    /\ PdfLoaded
    /\ input.pages = <<LongPage, PdfShape, PdfShape>>
    /\ result = "False"
    /\ logged.error.sample # <<>>

\* the places in the model's lines of the lines of a file
PoolPlaces(lines) == List([j \in 1..Len(lines) |-> PoolIndex(lines[j])])

\* the j-th line is blank, or matches no message start and stands before the
\* first line of the file that begins a message
IgnorableAt(places, j) ==
    \/ Facts[places[j]].blank
    \/ /\ ~Facts[places[j]].start
       /\ \A i \in 1..(j - 1) : ~Facts[places[i]].begins

\* the loop from line j on over the lines that are not ignorable
RECURSIVE LoopOverKept(_, _, _)
LoopOverKept(st, places, j) ==
    IF j > Len(places) THEN st
    ELSE LoopOverKept(IF IgnorableAt(places, j) THEN st
                      ELSE OnLine(st, LineTable[places[j]]),
                      places, j + 1)

\* the call left the messages and participants of the loop state st, and
\* the messages it had if no line of the file begins a message
Leaves(st, places) ==
    /\ messages' = st.messages
    /\ participants' = st.participants
    /\ (\A j \in 1..Len(places) : ~Facts[places[j]].begins)
           => messages' = messages

\* C23: a call begins with no message to continue: a line that matches no
\* message start and stands before the first message the call begins is
\* discarded, and a blank or whitespace-only line changes nothing wherever it
\* stands.  The call leaves what it would leave for the file without them.
C23_StartsAwaiting ==
    [][(calls' = calls + 1 /\ input'.kind = "text") =>
          \A places \in {PoolPlaces(input'.lines)} :
              \A st \in {LoopOverKept([messages        |-> messages,
                                        participants    |-> participants,
                                        current_message |-> FALSE],
                                       places, 1)} :
                  Leaves(st, places)]_vars

\* a file of a text line, a message start and a blank line was parsed: the
\* message holds what the start line holds and nothing else
C23_Witness ==
    /\ calls >= 1 /\ input.kind = "text" /\ Len(input.lines) = 3
    /\ LET f1 == FactOf(input.lines[1])
           f2 == FactOf(input.lines[2])
           f3 == FactOf(input.lines[3])
       IN  /\ ~f1.start /\ ~f1.blank /\ ~f1.placeholder
           /\ f2.begins
           /\ f3.blank
           /\ messages # <<>>
           /\ messages[Len(messages)].message = f2.body

\* C24: a call without a path on an analyzer that has stored none raises
\* ValueError, does not return False, and leaves the messages, the
\* participants and the DataFrame as they were; any other call does not raise
\* it, and the analyzer then holds the path the call was given, or the one it
\* held if the call was given none.
C24_NoPathRaises ==
    [][calls' = calls + 1 =>
          IF trace'[calls'].arg = None /\ file_path = None
          THEN /\ result' = "ValueError"
               /\ UNCHANGED <<messages, participants, df, file_path>>
          ELSE /\ result' \in {"True", "False"}
               /\ trace'[calls'].kind # "none"
               /\ file_path' = (IF trace'[calls'].arg # None
                                THEN trace'[calls'].arg ELSE file_path)]_vars

\* a call with a path was followed by a call without one, which read a file
\* and parsed a message of it
C24_Witness ==
    /\ calls = 2
    /\ trace[1].arg \in Paths
    /\ trace[2].arg = None
    /\ trace[2].kind = "text" /\ trace[2].added >= 1
    /\ result = "True"
    /\ file_path = trace[1].arg

(***************************************************************************)
(* C25..C27: the Firebase service.                                         *)
(***************************************************************************)
\* process_and_store_messages returned its dictionary
StoreReturned ==
    /\ returned.call = "process_and_store_messages"
    /\ ~returned.raised

\* every batch of the call got as far as its commit
OnlyCommits ==
    \A k \in 1..Len(storing.outcomes) :
        storing.outcomes[k] \in {"committed", "commit_raised", "updated"}

\* C25: whenever process_and_store_messages returns, stored + errors equals
\* total_messages, the length of the given list, for every pattern of
\* succeeding and failing batch commits, and completeness equals 100 exactly
\* when errors is 0 and the list is not empty.
C25_CountsAddUp ==
    StoreReturned =>
        /\ returned.value.total_messages = Len(storing.messages)
        /\ OnlyCommits =>
               returned.value.stored + returned.value.errors
                   = returned.value.total_messages
        /\ (returned.value.completeness = Hundred)
               = (returned.value.errors = 0 /\ Len(storing.messages) > 0)

\* a list one longer than a batch whose first commit failed and whose second
\* went through: one row stored, a hundred counted as errors
C25_Witness ==
    /\ StoreReturned
    /\ Len(storing.messages) = batch_size + 1
    /\ storing.outcomes = <<"commit_raised", "committed", "updated">>
    /\ returned.value.stored = 1
    /\ returned.value.errors = batch_size
    /\ returned.value.completeness # Hundred

\* process_and_store_messages returned or raised, and the database took
\* every write to the file document
StoreFinished ==
    /\ returned.call = "process_and_store_messages"
    /\ firebase.db
    /\ storing.pc = "idle"
    /\ storing.outcomes[Len(storing.outcomes)] # "outage"
    /\ storing.file_id \in DOMAIN firebase.chat_files

\* the status of the file of the call
StoredStatus == firebase.chat_files[storing.file_id].status

\* the batches are under way on a file that is known
StoreUnderWay ==
    /\ storing.pc = "batches"
    /\ storing.file_id \in DOMAIN firebase.chat_files

\* the status is 'processing' while the batches are stored, and at the end it
\* is 'processed' exactly when every row of the lists in question was stored,
\* and 'error' otherwise
StatusFollows(lists) ==
    /\ StoreUnderWay => StoredStatus = "processing"
    /\ StoreFinished /\ storing.messages \in lists =>
           /\ StoredStatus \in {"processed", "error"}
           /\ (StoredStatus = "processed")
                  = (storing.stored_count = Len(storing.messages))

AllLists == {MessageList(n) : n \in ListSizes}

\* C26: process_and_store_messages sets 'processing' before it stores
\* anything, and when it returns or raises with a working database the status
\* is 'processed' exactly when all messages of the given list were stored and
\* 'error' otherwise, never 'processing'.
C26_StatusFollows == StatusFollows(AllLists)

\* the same for the lists that hold a message
StatusFollowsNonEmpty == StatusFollows(AllLists \ {<<>>})

\* the empty list on an uploaded file: nothing was left unstored, and the
\* status is 'error'
EmptyListIsError ==
    /\ StoreFinished
    /\ ~returned.raised
    /\ storing.messages = <<>>
    /\ returned.value.errors = 0
    /\ StoredStatus = "error"

\* verify_data_completeness returned a report
VerifyReturned ==
    /\ returned.call = "verify_data_completeness"
    /\ ~returned.raised

\* the recommendation is among those of the report
Recommends(report, text) ==
    \E k \in 1..Len(report.recommendations) : report.recommendations[k] = text

\* C27: the integrity_score of every report of verify_data_completeness lies
\* in 0..100 whatever the number of files and issues, it is 100 if and only if
\* the list of issues is empty, and the recommendation that all checks passed
\* is given exactly in that case.
C27_ScoreInRange ==
    VerifyReturned =>
        /\ returned.value.integrity_score \in 0..100
        /\ (returned.value.integrity_score = 100) = (returned.value.issues = <<>>)
        /\ Recommends(returned.value, AllPassed) = (returned.value.issues = <<>>)

\* three files, each stored and then processed again with a failing commit:
\* nine issues take 120 off and the score is 0
C27_Witness ==
    /\ VerifyReturned
    /\ returned.value.files_checked = 3
    /\ Len(returned.value.issues) = 9
    /\ Deductions(returned.value.issues, 1) > 100
    /\ returned.value.integrity_score = 0
    /\ ~Recommends(returned.value, AllPassed)

\* a project whose files are all processed: no issue, score 100
AllProcessed ==
    /\ VerifyReturned
    /\ returned.value.files_checked = 2
    /\ returned.value.issues = <<>>
    /\ returned.value.integrity_score = 100

(***************************************************************************)
(* C28..C30: the processing of the uploaded files.                         *)
(***************************************************************************)
\* process_files_with_firebase_storage is past its early returns
InLoop == session.pc \in {"upload", "parse", "store", "validate", "finish"}

\* the function returned a processed_data that is not the empty dictionary
LoopDone == session.pc = "done" /\ ~session.processed_data.empty

\* the step named in the storage_errors entry of a file that was not counted
FailedStep(outcome) ==
    CASE outcome = "upload_raised" -> "upload"
      [] outcome = "parse_raised"  -> "parse"
      [] outcome = "store_raised"  -> "message_storage"
      [] outcome = "incomplete"    -> "message_storage"

\* the entries that the files of the outcomes from place k on must have, in
\* the order of the files
RECURSIVE ExpectedErrors(_, _, _)
ExpectedErrors(files, outcomes, k) ==
    IF k > Len(outcomes) THEN <<>>
    ELSE (IF outcomes[k] = "complete" THEN <<>>
          ELSE <<[file |-> files[k].name, step |-> FailedStep(outcomes[k])]>>)
             \o ExpectedErrors(files, outcomes, k + 1)

\* an entry of one of the three steps upload, parse and message storage
OfThreeSteps(entry) == entry.step # "validation"

\* the files of the session that were uploaded, parsed and fully stored
CompleteFiles == {k \in 1..Len(session.outcomes) : session.outcomes[k] = "complete"}

\* C28: files_processed <= files_uploaded <= file_count at every step; after
\* the loop every input file is either counted in files_processed or named
\* in a storage_errors entry with the step that failed; and
\* completeness_percentage is 100 exactly when every input file was
\* uploaded, parsed and had all of its messages stored.
C28_CountsAndErrors ==
    /\ InLoop \/ LoopDone =>
           /\ session.processed_data.firebase_storage.files_processed
                  <= session.processed_data.firebase_storage.files_uploaded
           /\ session.processed_data.firebase_storage.files_uploaded
                  <= session.processed_data.combined.file_count
           /\ session.processed_data.combined.file_count = Len(session.files)
    /\ LoopDone =>
           /\ Len(session.outcomes) = Len(session.files)
           /\ session.processed_data.firebase_storage.files_processed
                  = Cardinality(CompleteFiles)
           /\ SelectSeq(session.processed_data.firebase_storage.storage_errors,
                        OfThreeSteps)
                  = ExpectedErrors(session.files, session.outcomes, 1)
           /\ (session.processed_data.firebase_storage.completeness_percentage
                   = Hundred)
                  = (CompleteFiles = 1..Len(session.files))

\* two files: the first uploaded, parsed and stored, the second with a
\* failing commit, which gets an entry; half of the files are counted
C28_Witness ==
    /\ LoopDone
    /\ session.outcomes = <<"complete", "incomplete">>
    /\ session.processed_data.firebase_storage.files_uploaded = 2
    /\ session.processed_data.firebase_storage.files_processed = 1
    /\ session.processed_data.firebase_storage.completeness_percentage = Ratio(50, 1)
    /\ \E k \in 1..Len(session.processed_data.firebase_storage.storage_errors) :
           session.processed_data.firebase_storage.storage_errors[k]
               = [file |-> session.files[2].name, step |-> "message_storage"]

\* all files counted: 100
AllCounted ==
    /\ LoopDone
    /\ Len(session.files) = 2
    /\ session.processed_data.firebase_storage.completeness_percentage = Hundred

\* the files of the session with the given outcomes
FilesWith(outcomes) ==
    {k \in 1..Len(session.outcomes) : session.outcomes[k] \in outcomes}

\* the sum of the message counts of the files from place k on that passed
\* the three steps
RECURSIVE ParsedTotal(_, _, _)
ParsedTotal(files, outcomes, k) ==
    IF k > Len(outcomes) THEN 0
    ELSE (IF outcomes[k] \in {"complete", "incomplete"}
          THEN Len(ParsedAnalyzer(files[k].lines).messages) ELSE 0)
             + ParsedTotal(files, outcomes, k + 1)

\* C29: when Firebase is not initialized, the files are still processed and
\* kept locally: pressing the button parses the files and returns processed
\* data with their messages, not an empty result.
C29_KeptLocally ==
    session.pc = "done" /\ ~firebase.db
        /\ (\E k \in 1..Len(session.files) :
                ParsedAnalyzer(session.files[k].lines).messages # <<>>)
        => /\ ~session.processed_data.empty
           /\ session.handler.returned = "processed_data"
           /\ session.processed_data.combined.total_messages > 0

\* a chat file with two messages, no database: the result is empty and the
\* page says that no valid data could be processed
EmptyWithoutFirebase ==
    /\ session.pc = "done"
    /\ ~firebase.db
    /\ session.files = <<[name |-> "a.txt", lines |-> ChatTwo]>>
    /\ session.processed_data = NoProcessedData
    /\ session.handler.returned = None

\* the messages of the files from place k on that passed the three steps
RECURSIVE ParsedMessages(_, _, _)
ParsedMessages(files, outcomes, k) ==
    IF k > Len(outcomes) THEN <<>>
    ELSE (IF outcomes[k] \in {"complete", "incomplete"}
          THEN ParsedAnalyzer(files[k].lines).messages ELSE <<>>)
             \o ParsedMessages(files, outcomes, k + 1)

\* C30: a file whose upload, parse or message-store step raises contributes
\* no message, no participant and no individual_stats entry, and processing
\* goes on with the next file; the combined total_messages is the sum of the
\* parsed message counts of the files that passed the three steps, and the
\* project's message_count is the same number.
C30_FailedFilesLeftOut ==
    /\ InLoop =>
           /\ Len(session.outcomes) = session.i - 1
           /\ session.combined_messages
                  = ParsedMessages(session.files, session.outcomes, 1)
           /\ session.all_participants
                  = UNION {ParsedAnalyzer(session.files[k].lines).participants :
                              k \in FilesWith({"complete", "incomplete"})}
           /\ DOMAIN session.processed_data.individual_stats
                  = {session.files[k].name : k \in FilesWith({"complete", "incomplete"})}
    /\ LoopDone =>
           /\ Len(session.outcomes) = Len(session.files)
           /\ session.processed_data.combined.messages
                  = ParsedMessages(session.files, session.outcomes, 1)
           /\ session.processed_data.combined.participants
                  = UNION {ParsedAnalyzer(session.files[k].lines).participants :
                              k \in FilesWith({"complete", "incomplete"})}
           /\ DOMAIN session.processed_data.individual_stats
                  = {session.files[k].name : k \in FilesWith({"complete", "incomplete"})}
           /\ session.processed_data.combined.total_messages
                  = ParsedTotal(session.files, session.outcomes, 1)
           /\ session.project.message_count
                  = session.processed_data.combined.total_messages

\* the store of the first file, of two messages, raised, and the second
\* file, of one message, went through: one message, one participant, one
\* individual_stats entry
C30_Witness ==
    /\ LoopDone
    /\ session.files = <<[name |-> "a.txt", lines |-> ChatTwo],
                         [name |-> "b.txt", lines |-> ChatOne]>>
    /\ session.outcomes = <<"store_raised", "complete">>
    /\ session.processed_data.combined.total_messages = 1
    /\ Cardinality(session.processed_data.combined.participants) = 1
    /\ DOMAIN session.processed_data.individual_stats = {"b.txt"}
    /\ session.project.message_count = 1

====
